---- MODULE Spec2Model ----
(***************************************************************************)
(* A model of firmament's reconciliation engine: the backend metadata      *)
(* merge loop (file_version_upload), the versioned remote write            *)
(* (remote_write_io), the content index (content_list / rebuild) and the   *)
(* operators the Server runs over the LocalVersion / FileVersion stores.   *)
(*                                                                         *)
(* Each group of definitions has its own specification:                    *)
(*   SpecFVU  threads calling file_version_upload on one backend           *)
(*   SpecRW   threads racing remote_write_io on one remote path            *)
(*   SpecSRV  the Server's operator threads over checkouts and backends    *)
(*   SpecMAT  the materializer, LocalCreateOperator                        *)
(*   SpecLOC  one checkout's scanner, hasher and version creation          *)
(*   SpecENC  an encrypted object and the stream that decrypts it          *)
(*   SpecRUN  BaseOperator.run, the loop around step()                     *)
(*   SpecDS   set, delete and set_all of a path-keyed DiskDatastore        *)
(*   SpecRS   PathRequest.resolve_status                                   *)
(*   SpecMR   FileVersion.most_recent_content                              *)
(*   SpecRT   encrypt_file and reads of any size from decrypt_file         *)
(*   SpecCL   threads calling RcloneS3Backend.close on one instance        *)
(*   SpecFVR  one file_version_upload against other clients' writes        *)
(*   SpecHSH  the hasher over a checkout of several paths                  *)
(*   SpecSCN  the scanner over a checkout of several paths                 *)
(*   SpecLC   the per-step counting of the materializer                    *)
(*   SpecDOC  DownloadOnceCleanupOperator next to the materializer          *)
(*   SpecCU   ContentUploadOperator.step over two backends                  *)
(*   SpecSWC  threads calling FileVersion.set_with_content                  *)
(*   SpecDEL  the deletion pass next to the local operators                 *)
(*   SpecSCM  the scanner next to the materializer's download pass          *)
(*   SpecTC   most_recent_content on two checkouts                          *)
(***************************************************************************)
EXTENDS Integers, FiniteSets, Sequences, TLC

VARIABLES
    \* ---- file_version_upload on one backend (SpecFVU) ----
    fvKind,      \* "local" (LocalBackend) or "s3" (S3Backend via BaseBackend)
    fvObj,       \* the file-versions metadata object: [state, db]
    fvInitial,   \* the FileVersionSet the metadata held at the start
    fvInitialState, \* whether the metadata file existed at the start
    fvInput,     \* thread -> the FileVersionSet passed to file_version_upload
    fvPc,        \* thread -> position inside file_version_upload
    fvExisting,  \* thread -> existing_db after the merge (the body to write)
    fvVersion,   \* thread -> db_version read with existing_db (NoVersion = None)
    fvAttempt,   \* thread -> i of "for i in range(100)"
    fvLock,      \* holder of the flock on the local metadata file, or 0
    \* ---- remote_write_io on one remote path (SpecRW) ----
    rwKind,      \* "local" (LocalBackend) or "s3" (S3Backend)
    rwObj,       \* the remote object: [exists, body, mtime]
    rwClock,     \* the filesystem clock, in units of its timestamp resolution
    rwPc,        \* thread -> position inside remote_write_io
    rwSrc,       \* thread -> the bytes of source_handle (a sequence of chunks)
    rwExpected,  \* thread -> over_version (NoVersion = None)
    rwResult,    \* thread -> "none", "ok" or "version_error"
    rwLock,      \* holder of the flock on the local target file, or 0
    rwStartToken, \* the version token a read returned before the writes started
    \* ---- checkouts, their datastores and the Server's operators (SpecSRV) ----
    now,                 \* the wall clock, in whole seconds
    edits,               \* how many times the user has written a file so far
    disk,                \* checkout -> path -> the file on disk
    local_versions,      \* checkout -> path -> LocalVersionData
    file_versions,       \* checkout -> the FileVersion store
    content_backends,    \* checkout -> the ContentBackends store (hashes located)
    remote_content,      \* the backend's content bodies: hash -> body
    content_db,          \* the backend's contents index: [exists, hashes]
    extra_content_known, \* checkout -> extra_content_known of its backend instance
    last_content_rebuild, \* checkout -> whether its instance has rebuilt the index
    hasher,              \* checkout -> the hasher's position (file read, not yet stored)
    uploader,            \* checkout -> the content-upload operator's position
    content_uploaded,    \* checkout -> hashes whose content_upload returned
    \* ---- the materializer, LocalCreateOperator (SpecMAT) ----
    path_requests,       \* checkout -> the PathRequest store: path -> status
    creator,             \* checkout -> the materializer's position (file not yet renamed)
    \* ---- one encrypted object and its reader, _DecryptingStream (SpecENC) ----
    enc_key,             \* the encryptor's key
    enc_plain,           \* the plaintext the object was encrypted from
    enc_object,          \* the bytes of the stored object, possibly cut short
    dec,                 \* the decrypting stream and its reader:
                         \* [pos, buffer, status, out, ended]
    \* ---- the operators' worker threads, BaseOperator.run (SpecRUN) ----
    worker,              \* operator -> [pc, interval, sleep, last]
    \* ---- one path-keyed DiskDatastore and its callers (SpecDS) ----
    ds_kind,             \* "LocalVersion", "FileVersion" or "PathRequest"
    ds_store,            \* the committed contents: key -> value
    ds_last,             \* the last call: [op, keys, result]
    \* ---- one PathRequest store and a caller of resolve_status (SpecRS) ----
    rs_requests,         \* the PathRequest store: path -> status
    rs_path,             \* the path of the last resolve_status call
    rs_status,           \* what the call returned ("" before the first call)
    \* ---- one path's FileVersions and a caller of most_recent_content (SpecMR) ----
    mr_store,            \* the FileVersion store: path -> the items of its dict, in order
    mr_path,             \* the path of the last most_recent_content call
    mr_result,           \* what the call returned: [called, content_hash, mtime, size]
    \* ---- one RcloneS3Backend instance and the callers of close (SpecCL) ----
    cl_inst,             \* the instance: [closed, lock, process, terminated, config, active]
    cl_pc,               \* thread -> position inside close()
    cl_calls,            \* thread -> how many close() calls of the thread have returned
    \* ---- the local hasher over a checkout of several paths (SpecHSH) ----
    hs_disk,             \* path -> file of the checkout
    hs_local_versions,   \* path -> LocalVersion
    hs_step,             \* the hasher's step: [pc, todo, hashed, last]
    \* ---- the local scanner over a checkout of several paths (SpecSCN) ----
    sc_disk,             \* path -> file of the checkout, mtime in ticks
    sc_local_versions,   \* path -> LocalVersion
    sc_path_requests,    \* path -> status, the PathRequest store
    sc_file_versions,    \* the FileVersion store
    sc_step,             \* the scanner's step: [pc, seen, written, last]
    \* ---- the download pass of the materializer over many paths (SpecLC) ----
    lc_step,             \* the materializer's step: [pc, left, created, deleted, last]
    \* ---- the download-once cleanup beside the materializer (SpecDOC) ----
    dc_path_requests,    \* path -> status, the PathRequest store
    dc_file_versions,    \* the FileVersion store
    dc_local_versions,   \* the paths that have a LocalVersion
    dc_step,             \* the cleanup step: [pc, todo, cleaned, last]
    \* ---- the content upload step over several hashes and backends (SpecCU) ----
    cu_versions,         \* the content hashes that have a LocalVersion
    cu_files,            \* the content hashes whose LocalVersion's file is on disk
    cu_remote,           \* backend -> the content hashes stored on it
    cu_content_backends, \* the ContentBackends store: the (hash, backend) pairs
    cu_step,             \* the upload step: [pc, backend, local_hashes, missing, locations, ...]
    \* ---- FileVersion.set_with_content called from two threads ----
    sw_store,            \* the FileVersion store: path -> (content_hash -> meta)
    sw_call,             \* per thread: where it is inside set_with_content, its arguments and path_value
    \* ---- LocalCreateOperator next to the scanner ----
    sm_create,           \* the materializer's position between the LocalVersion insert and the rename
    \* ---- most_recent_content on two checkouts ----
    tc_store,            \* per checkout: the items of the path's dict of entries, in insertion order
    tc_result            \* per checkout: what most_recent_content returned

fvVars == <<fvKind, fvObj, fvInitial, fvInitialState, fvInput, fvPc, fvExisting, fvVersion,
            fvAttempt, fvLock>>

rwVars == <<rwKind, rwObj, rwClock, rwPc, rwSrc, rwExpected, rwResult, rwLock,
            rwStartToken>>

srvVars == <<now, edits, disk, local_versions, file_versions, content_backends,
             remote_content, content_db, extra_content_known,
             last_content_rebuild, hasher, uploader, content_uploaded>>

matVars == <<path_requests, creator>>

encVars == <<enc_key, enc_plain, enc_object, dec>>

runVars == <<worker>>

dsVars == <<ds_kind, ds_store, ds_last>>

rsVars == <<rs_requests, rs_path, rs_status>>

mrVars == <<mr_store, mr_path, mr_result>>

clVars == <<cl_inst, cl_pc, cl_calls>>

hsVars == <<hs_disk, hs_local_versions, hs_step>>

scVars == <<sc_disk, sc_local_versions, sc_path_requests, sc_file_versions, sc_step>>

lcVars == <<lc_step>>

dcVars == <<dc_path_requests, dc_file_versions, dc_local_versions, dc_step>>

cuVars == <<cu_versions, cu_files, cu_remote, cu_content_backends, cu_step>>

swVars == <<sw_store, sw_call>>

smVars == <<sm_create>>

tcVars == <<tc_store, tc_result>>

libVars == <<encVars, runVars, dsVars, rsVars, mrVars, clVars, hsVars, scVars, lcVars, dcVars, cuVars, swVars, smVars, tcVars>>

vars == <<fvVars, rwVars, srvVars, matVars, libVars>>

\* What the actions of one specification leave alone
fvOthers == <<rwVars, srvVars, matVars, libVars>>

rwOthers == <<fvVars, srvVars, matVars, libVars>>

srvOthers == <<fvVars, rwVars, matVars, libVars>>

matOthers == <<fvVars, rwVars, libVars>>

encOthers == <<fvVars, rwVars, srvVars, matVars, runVars, dsVars, rsVars,
    mrVars,
    clVars,
    hsVars,
    scVars,
    lcVars,
    dcVars,
    cuVars,
    swVars,
    smVars,
    tcVars>>

runOthers == <<fvVars, rwVars, srvVars, matVars, encVars, dsVars, rsVars,
    mrVars,
    clVars,
    hsVars,
    scVars,
    lcVars,
    dcVars,
    cuVars,
    swVars,
    smVars,
    tcVars>>

dsOthers == <<fvVars, rwVars, srvVars, matVars, encVars, runVars, rsVars,
    mrVars,
    clVars,
    hsVars,
    scVars,
    lcVars,
    dcVars,
    cuVars,
    swVars,
    smVars,
    tcVars>>

rsOthers == <<fvVars, rwVars, srvVars, matVars, encVars, runVars, dsVars,
    mrVars,
    clVars,
    hsVars,
    scVars,
    lcVars,
    dcVars,
    cuVars,
    swVars,
    smVars,
    tcVars>>

mrOthers == <<fvVars, rwVars, srvVars, matVars,
    encVars, runVars, dsVars, rsVars,
    clVars,
    hsVars,
    scVars,
    lcVars,
    dcVars,
    cuVars,
    swVars,
    smVars,
    tcVars>>

clOthers == <<fvVars, rwVars, srvVars, matVars,
    encVars, runVars, dsVars, rsVars, mrVars,
    hsVars,
    scVars,
    lcVars,
    dcVars,
    cuVars,
    swVars,
    smVars,
    tcVars>>

hsOthers == <<fvVars, rwVars, srvVars, matVars,
    encVars, runVars, dsVars, rsVars, mrVars, clVars,
    scVars,
    lcVars,
    dcVars,
    cuVars,
    swVars,
    smVars,
    tcVars>>

scOthers == <<fvVars, rwVars, srvVars, matVars,
    encVars, runVars, dsVars, rsVars, mrVars, clVars, hsVars,
    lcVars,
    dcVars,
    cuVars,
    swVars,
    smVars,
    tcVars>>

lcOthers == <<fvVars, rwVars, srvVars, matVars,
    encVars, runVars, dsVars, rsVars, mrVars, clVars, hsVars, scVars,
    dcVars,
    cuVars,
    swVars,
    smVars,
    tcVars>>

dcOthers == <<fvVars, rwVars, srvVars, matVars,
    encVars, runVars, dsVars, rsVars, mrVars, clVars, hsVars, scVars, lcVars,
    cuVars,
    swVars,
    smVars,
    tcVars>>

cuOthers == <<fvVars, rwVars, srvVars, matVars,
    encVars, runVars, dsVars, rsVars, mrVars, clVars, hsVars, scVars, lcVars, dcVars,
    swVars,
    smVars,
    tcVars>>

swOthers == <<fvVars, rwVars, srvVars, matVars,
    encVars, runVars, dsVars, rsVars, mrVars, clVars, hsVars, scVars, lcVars, dcVars, cuVars,
    smVars,
    tcVars>>

smOthers == <<fvVars, rwVars, srvVars, matVars,
    encVars, runVars, dsVars, rsVars, mrVars, clVars, hsVars, scVars, lcVars, dcVars, cuVars, swVars,
    tcVars>>

tcOthers == <<fvVars, rwVars, srvVars, matVars,
    encVars, runVars, dsVars, rsVars, mrVars, clVars, hsVars, scVars, lcVars, dcVars, cuVars, swVars, smVars>>

----------------------------------------------------------------------------
(* Bounds *)

NumThreads == 2

Threads == 1..NumThreads

----------------------------------------------------------------------------
(* FileVersionSet: path -> (content_hash -> meta), as FileVersionData      *)

FVPaths == {"/a", "/b"}

FVHashes == {"h1", "h2"}

EmptyDB == [p \in {} |-> [h \in {} |-> 0]]

\* A FileVersionSet with the single entry path -> {hash: {mtime, size}}
SingleEntry(p, h, m) == [q \in {p} |-> [g \in {h} |-> [mtime |-> m, size |-> m]]]

\* The (path, content_hash) pairs of a FileVersionSet
PairsOf(db) == UNION {{<<p, h>> : h \in DOMAIN db[p]} : p \in DOMAIN db}

\* The merge loop body of file_version_upload: existing_db[path][content] = meta
\* for every entry of file_versions, creating existing_db[path] when missing.
MergeFileVersions(existing, uploaded) ==
    [p \in (DOMAIN existing) \cup (DOMAIN uploaded) |->
        IF p \notin DOMAIN uploaded THEN existing[p]
        ELSE IF p \notin DOMAIN existing THEN uploaded[p]
        ELSE [h \in (DOMAIN existing[p]) \cup (DOMAIN uploaded[p]) |->
                IF h \in DOMAIN uploaded[p] THEN uploaded[p][h]
                ELSE existing[p][h]]]

\* file_version_download: {} when the metadata file is absent, else its contents
\* (an empty local file holds no msgpack document; its pair set is empty).
FileVersionDownload(obj) == IF obj.state = "data" THEN obj.db ELSE EmptyDB

----------------------------------------------------------------------------
(* Checkouts: disk, LocalVersion and FileVersion stores, content addresses *)

\* Two checkouts sharing one backend
Checkouts == {"A", "B"}

\* The checkouts whose user edits files while the servers run; the other one
\* only holds what it started with
Editors == {"A"}

\* The paths of the checkout, in the key order of the datastore
PathSeq == <<"/a">>

Paths == {PathSeq[i] : i \in 1..Len(PathSeq)}

\* The file bodies the user writes
Bodies == {"x", "y"}

\* hashlib.sha256(body).hexdigest(): a digest, injective on the modelled bodies
Sha256(body) == <<"sha256", body>>

Hashes == {Sha256(b) : b \in Bodies}

\* st_size of a file holding body
SizeOf(body) == IF body = "x" THEN 1 ELSE 2

\* The last second the modelled clock reaches
MaxTime == 1

\* How many writes the user makes before the edits stop
MaxEdits == 1

NoFile == [exists |-> FALSE, body |-> "", mtime |-> 0]

FileOf(body, mtime) == [exists |-> TRUE, body |-> body, mtime |-> mtime]

\* content_hash None: observed but not hashed yet
NoHash == <<"None">>

NoLocalVersion ==
    [exists |-> FALSE, content_hash |-> NoHash, mtime |-> 0, size |-> 0,
     last_hashed |-> -1]

\* LocalVersionData; last_hashed -1 stands for None / not set
LocalVersionOf(content_hash, mtime, size, last_hashed) ==
    [exists |-> TRUE, content_hash |-> content_hash, mtime |-> mtime,
     size |-> size, last_hashed |-> last_hashed]

\* A content path that holds no body
NotStored == ""

\* LocalVersion.all_content_hashes
all_content_hashes(lvs) ==
    {lvs[p].content_hash : p \in {q \in Paths : lvs[q].exists /\ lvs[q].content_hash # NoHash}}

\* The paths whose LocalVersion carries content_hash, in key order
PathsWithHash(lvs, content_hash) ==
    SelectSeq(PathSeq, LAMBDA q : lvs[q].exists /\ lvs[q].content_hash = content_hash)

\* FileVersion.set_with_content: get(path, {}), path_value[hash] = meta, set
set_with_content(fvs, path, content_hash, meta) ==
    MergeFileVersions(fvs, [q \in {path} |-> [g \in {content_hash} |-> meta]])

\* The hashes that have a body on the backend (remote walk / content_exists)
StoredHashes(content) == {h \in DOMAIN content : content[h] # NotStored}

----------------------------------------------------------------------------
(* The parts of the state a specification does not use stay at rest        *)

NoBody == <<>>

RWIdle ==
    /\ rwKind = "s3"
    /\ rwObj = [exists |-> FALSE, body |-> NoBody, mtime |-> 0]
    /\ rwClock = 0
    /\ rwPc = [t \in Threads |-> "done"]
    /\ rwSrc = [t \in Threads |-> NoBody]
    /\ rwExpected = [t \in Threads |-> <<"none">>]
    /\ rwResult = [t \in Threads |-> "none"]
    /\ rwLock = 0
    /\ rwStartToken = <<"none">>

IdleUploader ==
    [pc |-> "idle", local_hashes |-> {}, locations |-> {}, missing |-> {},
     walk |-> {}, clear |-> {}, current |-> NoHash]

IdleHasher ==
    [busy |-> FALSE, path |-> "", content_hash |-> NoHash, mtime |-> 0, size |-> 0]

SRVIdle ==
    /\ now = 0
    /\ edits = 0
    /\ disk = [c \in Checkouts |-> [p \in Paths |-> NoFile]]
    /\ local_versions = [c \in Checkouts |-> [p \in Paths |-> NoLocalVersion]]
    /\ file_versions = [c \in Checkouts |-> EmptyDB]
    /\ content_backends = [c \in Checkouts |-> {}]
    /\ remote_content = [h \in Hashes |-> NotStored]
    /\ content_db = [exists |-> FALSE, hashes |-> {}]
    /\ extra_content_known = [c \in Checkouts |-> {}]
    /\ last_content_rebuild = [c \in Checkouts |-> FALSE]
    /\ hasher = [c \in Checkouts |-> IdleHasher]
    /\ uploader = [c \in Checkouts |-> IdleUploader]
    /\ content_uploaded = [c \in Checkouts |-> {}]

\* No PathRequest set
NoRequests == [p \in {} |-> "on-demand"]

\* did: what the materializer did last ("deleted", "skipped", "created" or
\* nothing yet)
IdleCreator == [busy |-> FALSE, path |-> "", body |-> "", mtime |-> 0, did |-> ""]

MATIdle ==
    /\ path_requests = [c \in Checkouts |-> NoRequests]
    /\ creator = [c \in Checkouts |-> IdleCreator]

IdleStream ==
    [pos |-> 0, buffer |-> <<>>, status |-> "closed", out |-> <<>>, ended |-> FALSE]

ENCIdle ==
    /\ enc_key = ""
    /\ enc_plain = <<>>
    /\ enc_object = <<>>
    /\ dec = IdleStream

\* Two of the operators the Server starts
Operators == {"local-scanner", "local-hasher"}

\* A thread that has not been started.  idle_steps counts the steps that
\* returned False since the last one that returned True (or since the start),
\* and stops counting at MaxIdleSteps.
IdleWorker == [pc |-> "new", interval |-> 0, sleep |-> 0, last |-> "", idle_steps |-> 0]

RUNIdle == worker = [o \in Operators |-> IdleWorker]

\* An empty store
NoItems == [k \in {} |-> 0]

NoCall == [op |-> "", keys |-> {}, result |-> ""]

DSIdle ==
    /\ ds_kind = "LocalVersion"
    /\ ds_store = NoItems
    /\ ds_last = NoCall

RSIdle ==
    /\ rs_requests = NoRequests
    /\ rs_path = ""
    /\ rs_status = ""

\* No call made yet
NoResult == [called |-> FALSE, content_hash |-> NoHash, mtime |-> 0, size |-> 0]

MRIdle ==
    /\ mr_store = <<>>
    /\ mr_path = ""
    /\ mr_result = NoResult

\* An instance that was never started
NoInstance ==
    [closed |-> TRUE, lock |-> 0, process |-> FALSE, terminated |-> 0,
     killed |-> 0, config |-> FALSE, active |-> FALSE]

CLIdle ==
    /\ cl_inst = NoInstance
    /\ cl_pc = [t \in Threads |-> "idle"]
    /\ cl_calls = [t \in Threads |-> 0]

\* The hasher between two steps
IdleHashStep == [pc |-> "sleeping", todo |-> <<>>, hashed |-> 0, last |-> ""]

HSIdle ==
    /\ hs_disk = <<>>
    /\ hs_local_versions = <<>>
    /\ hs_step = IdleHashStep

\* The scanner between two steps.  raced: the paths that had no file during
\* the walk of the step and whose LocalVersion another thread inserted after
\* that walk
IdleScanStep == [pc |-> "sleeping", seen |-> {}, written |-> {}, last |-> "", raced |-> {}]

SCIdle ==
    /\ sc_disk = <<>>
    /\ sc_local_versions = <<>>
    /\ sc_path_requests = <<>>
    /\ sc_file_versions = <<>>
    /\ sc_step = IdleScanStep

\* The materializer between two steps
IdleCreateStep == [pc |-> "sleeping", left |-> 0, created |-> 0, deleted |-> 0, last |-> ""]

LCIdle ==
    /\ lc_step = IdleCreateStep

\* The cleanup operator between two steps
IdleCleanupStep == [pc |-> "sleeping", todo |-> <<>>, cleaned |-> 0, last |-> ""]

DCIdle ==
    /\ dc_path_requests = <<>>
    /\ dc_file_versions = <<>>
    /\ dc_local_versions = {}
    /\ dc_step = IdleCleanupStep

\* The content uploader between two steps
IdleUploadStep ==
    [pc |-> "sleeping", backend |-> 0, local_hashes |-> {}, missing |-> {},
     locations |-> {}, uploaded |-> 0, sent |-> {}, logged |-> {}, last |-> ""]

CUIdle ==
    /\ cu_versions = {}
    /\ cu_files = {}
    /\ cu_remote = <<>>
    /\ cu_content_backends = {}
    /\ cu_step = IdleUploadStep

\* A thread that is not inside set_with_content
IdleSetCall == [pc |-> "idle", path |-> "", content_hash |-> "", meta |-> <<>>, path_value |-> <<>>]

SWIdle ==
    /\ sw_store = <<>>
    /\ sw_call = [t \in Threads |-> IdleSetCall]

\* The materializer next to the scanner: not between its insert and its rename
IdleCreate == [pc |-> "idle", path |-> "", content_hash |-> NoHash]

SMIdle ==
    /\ sm_create = IdleCreate

TCIdle ==
    /\ tc_store = <<>>
    /\ tc_result = <<>>

LIBIdle ==
    /\ ENCIdle
    /\ RUNIdle
    /\ DSIdle
    /\ RSIdle
    /\ MRIdle
    /\ CLIdle
    /\ HSIdle
    /\ SCIdle
    /\ LCIdle
    /\ DCIdle
    /\ CUIdle
    /\ SWIdle
    /\ SMIdle
    /\ TCIdle

FVUIdle ==
    /\ fvKind = "s3"
    /\ fvObj = [state |-> "absent", db |-> EmptyDB]
    /\ fvInitial = EmptyDB
    /\ fvInitialState = "absent"
    /\ fvInput = [t \in Threads |-> EmptyDB]
    /\ fvPc = [t \in Threads |-> "done"]
    /\ fvExisting = [t \in Threads |-> EmptyDB]
    /\ fvVersion = [t \in Threads |-> <<"none">>]
    /\ fvAttempt = [t \in Threads |-> 0]
    /\ fvLock = 0

----------------------------------------------------------------------------
(* file_version_upload                                                     *)

\* None, the db_version of a metadata file that did not exist
NoVersion == <<"none">>

\* S3 version token: the object's ETag, a digest of the stored body
\* (injective on bodies; msgpack key order is not modelled).
ETag(body) == <<"etag", body>>

\* "for i in range(100)"
RetryLimit == 100

\* The input sets a caller may pass: every single-entry set, and one set with
\* two entries.  Thread t stamps its entries with mtime t.
FVInputs(t) ==
    {SingleEntry(ph[1], ph[2], t) : ph \in FVPaths \X FVHashes} \cup
    {MergeFileVersions(SingleEntry("/a", "h1", t), SingleEntry("/b", "h2", t))}

\* The states the metadata object can be in before the calls start
FVInitialObjects ==
    {[state |-> "absent", db |-> EmptyDB],
     [state |-> "data", db |-> EmptyDB],
     [state |-> "data", db |-> SingleEntry("/a", "h1", 0)],
     [state |-> "data", db |-> SingleEntry("/b", "h1", 0)]}

InitFVU ==
    /\ fvKind \in {"local", "s3"}
    /\ fvObj \in FVInitialObjects
    /\ fvInitial = FileVersionDownload(fvObj)
    /\ fvInitialState = fvObj.state
    /\ fvInput \in [Threads -> UNION {FVInputs(t) : t \in Threads}]
    /\ \A t \in Threads : fvInput[t] \in FVInputs(t)
    /\ fvPc = [t \in Threads |-> "idle"]
    /\ fvExisting = [t \in Threads |-> EmptyDB]
    /\ fvVersion = [t \in Threads |-> NoVersion]
    /\ fvAttempt = [t \in Threads |-> 0]
    /\ fvLock = 0
    /\ RWIdle
    /\ SRVIdle
    /\ MATIdle
    /\ LIBIdle

\* ---- BaseBackend.file_version_upload over S3Backend ----

\* The call starts: first iteration of the retry loop
S3Call(t) ==
    /\ fvKind = "s3"
    /\ fvPc[t] = "idle"
    /\ fvPc' = [fvPc EXCEPT ![t] = "exists"]
    /\ UNCHANGED fvOthers
    /\ UNCHANGED <<fvKind, fvObj, fvInitial, fvInitialState, fvInput, fvExisting, fvVersion,
                   fvAttempt, fvLock>>

\* remote_exists(remote_path): a HEAD.  When the object is absent the merge
\* runs on {} with db_version None and the write carries no version.
S3Exists(t) ==
    /\ fvKind = "s3"
    /\ fvPc[t] = "exists"
    /\ IF fvObj.state = "absent"
       THEN /\ fvExisting' = [fvExisting EXCEPT
                                ![t] = MergeFileVersions(EmptyDB, fvInput[t])]
            /\ fvVersion' = [fvVersion EXCEPT ![t] = NoVersion]
            /\ fvPc' = [fvPc EXCEPT ![t] = "put"]
       ELSE /\ fvPc' = [fvPc EXCEPT ![t] = "read"]
            /\ UNCHANGED <<fvExisting, fvVersion>>
    /\ UNCHANGED fvOthers
    /\ UNCHANGED <<fvKind, fvObj, fvInitial, fvInitialState, fvInput, fvAttempt, fvLock>>

\* remote_read_bytes(remote_path): a GET returning the body and its ETag,
\* followed by the merge of file_versions into existing_db.
S3Read(t) ==
    /\ fvKind = "s3"
    /\ fvPc[t] = "read"
    /\ fvObj.state = "data"
    /\ fvExisting' = [fvExisting EXCEPT
                        ![t] = MergeFileVersions(fvObj.db, fvInput[t])]
    /\ fvVersion' = [fvVersion EXCEPT ![t] = ETag(fvObj.db)]
    /\ fvPc' = [fvPc EXCEPT ![t] = "head"]
    /\ UNCHANGED fvOthers
    /\ UNCHANGED <<fvKind, fvObj, fvInitial, fvInitialState, fvInput, fvAttempt, fvLock>>

\* A version check that lets the write through when head_object answers 404
S3HeadRejects_Ignore404(obj, over_version) ==
    /\ obj.state # "absent"
    /\ ETag(obj.db) # over_version

\* The outcome of S3Backend.remote_write_io's version check: head_object and
\* the comparison of ETags.  TRUE means VersionError.
S3HeadRejects(obj, over_version) ==
    \/ obj.state = "absent"
    \/ ETag(obj.db) # over_version

\* A loop that lets the first VersionError out
AfterVersionError_Escapes(i) == "failed"

\* except VersionError: continue.  With i the number of the failed iteration
\* (from 0), the loop goes on to the next one, and its else branch raises
\* OSError when range(100) is used up.
AfterVersionError(i) == IF i + 1 >= RetryLimit THEN "failed" ELSE "exists"

\* remote_write_io with over_version: the HEAD.  On VersionError the loop
\* continues with the next i, and raises OSError after RetryLimit failures.
S3Head(t) ==
    /\ fvKind = "s3"
    /\ fvPc[t] = "head"
    /\ IF S3HeadRejects(fvObj, fvVersion[t])
       THEN /\ fvAttempt' = [fvAttempt EXCEPT ![t] = @ + 1]
            /\ fvPc' = [fvPc EXCEPT ![t] = AfterVersionError(fvAttempt[t])]
       ELSE /\ fvPc' = [fvPc EXCEPT ![t] = "put"]
            /\ UNCHANGED fvAttempt
    /\ UNCHANGED fvOthers
    /\ UNCHANGED <<fvKind, fvObj, fvInitial, fvInitialState, fvInput, fvExisting, fvVersion,
                   fvLock>>

\* remote_write_io: the PUT of the merged body; the call returns.
S3Put(t) ==
    /\ fvKind = "s3"
    /\ fvPc[t] = "put"
    /\ fvObj' = [state |-> "data", db |-> fvExisting[t]]
    /\ fvPc' = [fvPc EXCEPT ![t] = "done"]
    /\ UNCHANGED fvOthers
    /\ UNCHANGED <<fvKind, fvInitial, fvInitialState, fvInput, fvExisting, fvVersion,
                   fvAttempt, fvLock>>

\* ---- LocalBackend.file_version_upload ----

\* open(file_versions_db_path, "a+b"): creates an empty file when absent
LocalOpen(t) ==
    /\ fvKind = "local"
    /\ fvPc[t] = "idle"
    /\ fvObj' = IF fvObj.state = "absent"
                THEN [state |-> "empty", db |-> EmptyDB] ELSE fvObj
    /\ fvPc' = [fvPc EXCEPT ![t] = "flock"]
    /\ UNCHANGED fvOthers
    /\ UNCHANGED <<fvKind, fvInitial, fvInitialState, fvInput, fvExisting, fvVersion,
                   fvAttempt, fvLock>>

\* fcntl.flock(fh, LOCK_EX): blocks until no other handle holds the lock
LocalFlock(t) ==
    /\ fvKind = "local"
    /\ fvPc[t] = "flock"
    /\ fvLock = 0
    /\ fvLock' = t
    /\ fvPc' = [fvPc EXCEPT ![t] = "locked"]
    /\ UNCHANGED fvOthers
    /\ UNCHANGED <<fvKind, fvObj, fvInitial, fvInitialState, fvInput, fvExisting, fvVersion,
                   fvAttempt>>

\* fh.seek(0); fh.read(); unpack (or {} when empty); merge
LocalReadMerge(t) ==
    /\ fvKind = "local"
    /\ fvPc[t] = "locked"
    /\ fvExisting' = [fvExisting EXCEPT
                        ![t] = MergeFileVersions(FileVersionDownload(fvObj),
                                                 fvInput[t])]
    /\ fvPc' = [fvPc EXCEPT ![t] = "truncate"]
    /\ UNCHANGED fvOthers
    /\ UNCHANGED <<fvKind, fvObj, fvInitial, fvInitialState, fvInput, fvVersion, fvAttempt,
                   fvLock>>

\* fh.seek(0); fh.truncate()
LocalTruncate(t) ==
    /\ fvKind = "local"
    /\ fvPc[t] = "truncate"
    /\ fvObj' = [state |-> "empty", db |-> EmptyDB]
    /\ fvPc' = [fvPc EXCEPT ![t] = "pack"]
    /\ UNCHANGED fvOthers
    /\ UNCHANGED <<fvKind, fvInitial, fvInitialState, fvInput, fvExisting, fvVersion,
                   fvAttempt, fvLock>>

\* msgpack.pack(existing, fh)
LocalPack(t) ==
    /\ fvKind = "local"
    /\ fvPc[t] = "pack"
    /\ fvObj' = [state |-> "data", db |-> fvExisting[t]]
    /\ fvPc' = [fvPc EXCEPT ![t] = "unlock"]
    /\ UNCHANGED fvOthers
    /\ UNCHANGED <<fvKind, fvInitial, fvInitialState, fvInput, fvExisting, fvVersion,
                   fvAttempt, fvLock>>

\* finally: fcntl.flock(fh, LOCK_UN); the call returns
LocalUnlock(t) ==
    /\ fvKind = "local"
    /\ fvPc[t] = "unlock"
    /\ fvLock' = 0
    /\ fvPc' = [fvPc EXCEPT ![t] = "done"]
    /\ UNCHANGED fvOthers
    /\ UNCHANGED <<fvKind, fvObj, fvInitial, fvInitialState, fvInput, fvExisting, fvVersion,
                   fvAttempt>>

NextFVU ==
    \E t \in Threads :
        \/ S3Call(t) \/ S3Exists(t) \/ S3Read(t) \/ S3Head(t) \/ S3Put(t)
        \/ LocalOpen(t) \/ LocalFlock(t) \/ LocalReadMerge(t)
        \/ LocalTruncate(t) \/ LocalPack(t) \/ LocalUnlock(t)

SpecFVU == InitFVU /\ [][NextFVU]_vars

\* Every call has returned (none is still running or raised)
FVAllReturned == \A t \in Threads : fvPc[t] = "done"

\* The union by (path, content_hash) of the initial set and all input sets
FVUnionPairs == PairsOf(fvInitial) \cup UNION {PairsOf(fvInput[t]) : t \in Threads}

FVDownloadedPairs == PairsOf(FileVersionDownload(fvObj))

\* C1: once the file-versions metadata file exists, after all
\* file_version_upload calls on the backend have returned, file_version_download
\* returns exactly the union of the initial set and all input sets by
\* (path, content_hash).
C1_UnionAfterUploads ==
    (fvInitialState = "data" /\ FVAllReturned) => FVDownloadedPairs = FVUnionPairs

\* C2: two threads call file_version_upload with disjoint single-entry sets from
\* the same backend state (any state, the metadata file may be absent); after
\* both return, file_version_download returns the union of both sets.
C2_DisjointSingleEntryUnion ==
    (/\ FVAllReturned
     /\ \A t \in Threads : Cardinality(PairsOf(fvInput[t])) = 1
     /\ \A t, u \in Threads : t # u => PairsOf(fvInput[t]) \cap PairsOf(fvInput[u]) = {})
    => \A t \in Threads : PairsOf(fvInput[t]) \subseteq FVDownloadedPairs

\* C5: on the S3 backend, where compare-and-set is a HEAD followed by a PUT,
\* every (path, content_hash) pair passed to a file_version_upload call that
\* returned is in the metadata object once all concurrent calls have returned
\* (stated for calls whose write carried a version token, i.e. went through
\* the HEAD check).
C5_S3NoPairLost ==
    (/\ fvKind = "s3"
     /\ FVAllReturned
     /\ \A t \in Threads : fvVersion[t] # NoVersion)
    => \A t \in Threads : PairsOf(fvInput[t]) \subseteq FVDownloadedPairs

\* The flock-protected LocalBackend.file_version_upload loses and invents no
\* pair, from any starting state.
LocalUploadsMerge ==
    (fvKind = "local" /\ FVAllReturned) => FVDownloadedPairs = FVUnionPairs

----------------------------------------------------------------------------
(* remote_write_io                                                         *)

\* Local version token: the file's st_mtime_ns rendered as a decimal string
MtimeToken(mtime) == <<"mtime_ns", mtime>>

\* The version token remote_read_io returns for the object as it stands
TokenOf(kind, obj) ==
    IF kind = "s3" THEN ETag(obj.body) ELSE MtimeToken(obj.mtime)

\* The last timestamp the modelled filesystem clock reaches
MaxClock == 2

\* The bytes a writer streams: two chunks, labelled by the writer
SrcOf(t) == <<t, t>>

InitialBody == <<0, 0>>

\* A token that no longer matches anything stored
StaleToken(kind) ==
    IF kind = "s3" THEN ETag(<<-1, -1>>) ELSE MtimeToken(-1)

InitRW ==
    /\ rwKind \in {"local", "s3"}
    /\ rwClock \in 0..1
    /\ rwObj \in {[exists |-> TRUE, body |-> InitialBody, mtime |-> m] : m \in 0..rwClock}
                 \cup {[exists |-> FALSE, body |-> NoBody, mtime |-> 0]}
    \* the local write path is modelled for an existing target
    /\ rwKind = "local" => rwObj.exists
    /\ rwKind = "s3" => (rwObj.mtime = 0 /\ rwClock = 0)
    /\ rwStartToken = IF rwObj.exists THEN TokenOf(rwKind, rwObj) ELSE NoVersion
    /\ rwSrc \in [Threads -> {SrcOf(t) : t \in Threads} \cup {InitialBody}]
    /\ \A t \in Threads : rwSrc[t] \in {SrcOf(t), InitialBody}
    /\ rwExpected \in [Threads -> {NoVersion, rwStartToken, StaleToken(rwKind)}]
    /\ rwKind = "local" => \A t \in Threads : rwExpected[t] # NoVersion
    /\ rwPc = [t \in Threads |-> "idle"]
    /\ rwResult = [t \in Threads |-> "none"]
    /\ rwLock = 0
    /\ FVUIdle
    /\ SRVIdle
    /\ MATIdle
    /\ LIBIdle

\* ---- S3Backend.remote_write_io ----

\* Entry: the body is read and encrypted; "if over_version:" selects the check
S3WriteCall(t) ==
    /\ rwKind = "s3"
    /\ rwPc[t] = "idle"
    /\ rwPc' = [rwPc EXCEPT ![t] = IF rwExpected[t] # NoVersion THEN "check"
                                   ELSE "write"]
    /\ UNCHANGED rwOthers
    /\ UNCHANGED <<rwKind, rwObj, rwClock, rwSrc, rwExpected, rwResult, rwLock,
                   rwStartToken>>

\* head_object and the ETag comparison: VersionError on 404 or mismatch
S3WriteHead(t) ==
    /\ rwKind = "s3"
    /\ rwPc[t] = "check"
    /\ IF S3HeadRejects([state |-> IF rwObj.exists THEN "data" ELSE "absent",
                         db |-> rwObj.body], rwExpected[t])
       THEN /\ rwResult' = [rwResult EXCEPT ![t] = "version_error"]
            /\ rwPc' = [rwPc EXCEPT ![t] = "done"]
       ELSE /\ rwPc' = [rwPc EXCEPT ![t] = "write"]
            /\ UNCHANGED rwResult
    /\ UNCHANGED rwOthers
    /\ UNCHANGED <<rwKind, rwObj, rwClock, rwSrc, rwExpected, rwLock,
                   rwStartToken>>

\* put_object: the whole body replaces the object
S3WritePut(t) ==
    /\ rwKind = "s3"
    /\ rwPc[t] = "write"
    /\ rwObj' = [exists |-> TRUE, body |-> rwSrc[t], mtime |-> 0]
    /\ rwResult' = [rwResult EXCEPT ![t] = "ok"]
    /\ rwPc' = [rwPc EXCEPT ![t] = "done"]
    /\ UNCHANGED rwOthers
    /\ UNCHANGED <<rwKind, rwClock, rwSrc, rwExpected, rwLock, rwStartToken>>

\* ---- LocalBackend.remote_write_io (compare-and-set under flock) ----

\* The filesystem clock advances by one unit of its resolution
ClockTick ==
    /\ rwKind = "local"
    /\ rwClock < MaxClock
    /\ \E t \in Threads : rwPc[t] # "done"
    /\ rwClock' = rwClock + 1
    /\ UNCHANGED rwOthers
    /\ UNCHANGED <<rwKind, rwObj, rwPc, rwSrc, rwExpected, rwResult, rwLock,
                   rwStartToken>>

\* open the target for writing (no truncation) and take the exclusive lock
LocalWriteLock(t) ==
    /\ rwKind = "local"
    /\ rwPc[t] = "idle"
    /\ rwLock = 0
    /\ rwLock' = t
    /\ rwPc' = [rwPc EXCEPT ![t] = "check"]
    /\ UNCHANGED rwOthers
    /\ UNCHANGED <<rwKind, rwObj, rwClock, rwSrc, rwExpected, rwResult,
                   rwStartToken>>

\* re-stat under the lock and compare mtime-ns to the expected token
LocalCheckRejects(obj, over_version) == MtimeToken(obj.mtime) # over_version

\* on mismatch: release the lock and fail with VersionError
LocalWriteCheck(t) ==
    /\ rwKind = "local"
    /\ rwPc[t] = "check"
    /\ IF LocalCheckRejects(rwObj, rwExpected[t])
       THEN /\ rwResult' = [rwResult EXCEPT ![t] = "version_error"]
            /\ rwPc' = [rwPc EXCEPT ![t] = "done"]
            /\ rwLock' = 0
       ELSE /\ rwPc' = [rwPc EXCEPT ![t] = "truncate"]
            /\ UNCHANGED <<rwResult, rwLock>>
    /\ UNCHANGED rwOthers
    /\ UNCHANGED <<rwKind, rwObj, rwClock, rwSrc, rwExpected, rwStartToken>>

\* the write under the lock: truncate, then the chunks in order; every write
\* stamps the file with the clock
LocalWriteTruncate(t) ==
    /\ rwKind = "local"
    /\ rwPc[t] = "truncate"
    /\ rwObj' = [exists |-> TRUE, body |-> <<>>, mtime |-> rwClock]
    /\ rwPc' = [rwPc EXCEPT ![t] = "chunk"]
    /\ UNCHANGED rwOthers
    /\ UNCHANGED <<rwKind, rwClock, rwSrc, rwExpected, rwResult, rwLock,
                   rwStartToken>>

LocalWriteChunk(t) ==
    /\ rwKind = "local"
    /\ rwPc[t] = "chunk"
    /\ Len(rwObj.body) < Len(rwSrc[t])
    /\ rwObj' = [exists |-> TRUE,
                 body |-> Append(rwObj.body, rwSrc[t][Len(rwObj.body) + 1]),
                 mtime |-> rwClock]
    /\ rwPc' = [rwPc EXCEPT ![t] = IF Len(rwObj.body) + 1 = Len(rwSrc[t])
                                   THEN "unlock" ELSE "chunk"]
    /\ UNCHANGED rwOthers
    /\ UNCHANGED <<rwKind, rwClock, rwSrc, rwExpected, rwResult, rwLock,
                   rwStartToken>>

\* release the lock; the call returns
LocalWriteUnlock(t) ==
    /\ rwKind = "local"
    /\ rwPc[t] = "unlock"
    /\ rwLock' = 0
    /\ rwResult' = [rwResult EXCEPT ![t] = "ok"]
    /\ rwPc' = [rwPc EXCEPT ![t] = "done"]
    /\ UNCHANGED rwOthers
    /\ UNCHANGED <<rwKind, rwObj, rwClock, rwSrc, rwExpected, rwStartToken>>

NextRW ==
    \/ \E t \in Threads :
        \/ S3WriteCall(t) \/ S3WriteHead(t) \/ S3WritePut(t)
        \/ LocalWriteLock(t) \/ LocalWriteCheck(t) \/ LocalWriteTruncate(t)
        \/ LocalWriteChunk(t) \/ LocalWriteUnlock(t)
    \/ ClockTick

SpecRW == InitRW /\ [][NextRW]_vars

RWAllReturned == \A t \in Threads : rwPc[t] = "done"

\* The threads whose write succeeded
RWWinners == {t \in Threads : rwResult[t] = "ok"}

\* Every thread passed the token a read returned before the race
RWSameExpected ==
    /\ rwStartToken # NoVersion
    /\ \A t \in Threads : rwExpected[t] = rwStartToken

\* The writers stream different bytes
RWDistinctSources == \A t, u \in Threads : t # u => rwSrc[t] # rwSrc[u]

\* C3: threads racing remote_write_io on one path with the same
\* expected_version: exactly one write succeeds, the others fail with
\* VersionError, and the stored content is the winner's source bytes.
C3_ExactlyOneWinner ==
    (RWAllReturned /\ RWSameExpected /\ RWDistinctSources)
    => /\ Cardinality(RWWinners) = 1
       /\ \A t \in Threads \ RWWinners : rwResult[t] = "version_error"
       /\ \A t \in RWWinners : rwObj.body = rwSrc[t]

\* The version check of thread t finds a token other than expected_version
\* (or no object)
RWCheckFindsMismatch(t) ==
    /\ rwPc[t] = "check"
    /\ rwPc'[t] # "check"
    /\ \/ ~rwObj.exists
       \/ TokenOf(rwKind, rwObj) # rwExpected[t]

RWQuiescent == \A t \in Threads : rwPc[t] \in {"idle", "check", "done"}

\* C23: every successful remote_write_io to a path changes that path's
\* version token: once a write has succeeded, the token a read returns
\* differs from the token a read returned before the writes.
C23_WriteChangesToken ==
    (/\ rwStartToken # NoVersion
     /\ RWQuiescent
     /\ \E t \in Threads : rwResult[t] = "ok")
    => TokenOf(rwKind, rwObj) # rwStartToken

----------------------------------------------------------------------------
(* Server: the operator threads of two checkouts that share one backend    *)

\* The body of the files that exist when the servers start
InitialFileBody == "x"

\* A checkout's path when the servers start: not there, or a file that an
\* earlier run of the server has scanned, hashed and versioned
InitialFiles == {NoFile, FileOf(InitialFileBody, 0)}

\* The LocalVersion an earlier run has left for file f
SettledLocalVersion(f) ==
    IF f.exists THEN LocalVersionOf(Sha256(f.body), f.mtime, SizeOf(f.body), 0)
    ELSE NoLocalVersion

\* The FileVersion store an earlier run has left for the files fs
SettledFileVersions(fs) ==
    [p \in {q \in Paths : fs[q].exists} |->
        [h \in {Sha256(fs[p].body)} |-> [mtime |-> fs[p].mtime, size |-> SizeOf(fs[p].body)]]]

\* Both servers have just started; the backend holds no content, no content
\* index and no file-versions metadata yet.
InitSRV ==
    /\ now = 0
    /\ edits = 0
    /\ disk \in [Checkouts -> [Paths -> InitialFiles]]
    /\ local_versions = [c \in Checkouts |-> [p \in Paths |-> SettledLocalVersion(disk[c][p])]]
    /\ file_versions = [c \in Checkouts |-> SettledFileVersions(disk[c])]
    /\ content_backends = [c \in Checkouts |-> {}]
    /\ remote_content = [h \in Hashes |-> NotStored]
    /\ content_db = [exists |-> FALSE, hashes |-> {}]
    /\ extra_content_known = [c \in Checkouts |-> {}]
    /\ last_content_rebuild = [c \in Checkouts |-> FALSE]
    /\ hasher = [c \in Checkouts |-> IdleHasher]
    /\ uploader = [c \in Checkouts |-> IdleUploader]
    /\ content_uploaded = [c \in Checkouts |-> {}]
    /\ fvKind \in {"local", "s3"}
    /\ fvObj = [state |-> "absent", db |-> EmptyDB]
    /\ fvInitial = EmptyDB
    /\ fvInitialState = "absent"
    /\ fvInput = [t \in Threads |-> EmptyDB]
    /\ fvPc = [t \in Threads |-> "done"]
    /\ fvExisting = [t \in Threads |-> EmptyDB]
    /\ fvVersion = [t \in Threads |-> NoVersion]
    /\ fvAttempt = [t \in Threads |-> 0]
    /\ fvLock = 0
    /\ RWIdle
    /\ MATIdle
    /\ LIBIdle

\* The user writes body b to path p of checkout c; st_mtime is the clock
UserWrite(c, p, b) ==
    /\ edits < MaxEdits
    /\ edits' = edits + 1
    /\ disk' = [disk EXCEPT ![c][p] = FileOf(b, now)]
    /\ UNCHANGED srvOthers
    /\ UNCHANGED <<now, local_versions, file_versions, content_backends, remote_content,
                   content_db, extra_content_known, last_content_rebuild, hasher, uploader,
                   content_uploaded>>

\* A second passes
Tick ==
    /\ now < MaxTime
    /\ now' = now + 1
    /\ UNCHANGED srvOthers
    /\ UNCHANGED <<edits, disk, local_versions, file_versions, content_backends,
                   remote_content, content_db, extra_content_known, last_content_rebuild,
                   hasher, uploader, content_uploaded>>

\* The LocalVersion store after one scanner walk: a file with no entry, or with
\* an entry whose mtime is smaller than int(st_mtime), gets a fresh entry with
\* content_hash None.  Paths that have an entry but no file are only logged.
ScannedVersions(c) ==
    [p \in Paths |->
        IF /\ disk[c][p].exists
           /\ \/ ~local_versions[c][p].exists
              \/ local_versions[c][p].mtime < disk[c][p].mtime
        THEN LocalVersionOf(NoHash, disk[c][p].mtime, SizeOf(disk[c][p].body), -1)
        ELSE local_versions[c][p]]

\* LocalScannerOperator.step, a step that finds something new
ScannerStep(c) ==
    /\ ScannedVersions(c) # local_versions[c]
    /\ local_versions' = [local_versions EXCEPT ![c] = ScannedVersions(c)]
    /\ UNCHANGED srvOthers
    /\ UNCHANGED <<now, edits, disk, file_versions, content_backends, remote_content,
                   content_db, extra_content_known, last_content_rebuild, hasher, uploader,
                   content_uploaded>>

\* LocalHasherOperator.step, first half for one path without a content hash:
\* open the file and hash what is read
HasherRead(c, p) ==
    /\ ~hasher[c].busy
    /\ local_versions[c][p].exists
    /\ local_versions[c][p].content_hash = NoHash
    /\ disk[c][p].exists
    /\ hasher' = [hasher EXCEPT ![c] =
                    [busy |-> TRUE, path |-> p, content_hash |-> Sha256(disk[c][p].body),
                     mtime |-> disk[c][p].mtime, size |-> SizeOf(disk[c][p].body)]]
    /\ UNCHANGED srvOthers
    /\ UNCHANGED <<now, edits, disk, local_versions, file_versions, content_backends,
                   remote_content, content_db, extra_content_known, last_content_rebuild,
                   uploader, content_uploaded>>

\* os.stat(fh.fileno()) on the file the hasher holds open: the attributes the
\* file has now, or, when the path has been unlinked meanwhile, those the open
\* file had
HasherStat(c) ==
    LET p == hasher[c].path
    IN IF disk[c][p].exists
       THEN [mtime |-> disk[c][p].mtime, size |-> SizeOf(disk[c][p].body)]
       ELSE [mtime |-> hasher[c].mtime, size |-> hasher[c].size]

\* LocalHasherOperator.step, second half: os.stat(fh.fileno()) and the store of
\* hash, size, int(mtime) and last_hashed
HasherStore(c) ==
    /\ hasher[c].busy
    /\ local_versions' = [local_versions EXCEPT ![c][hasher[c].path] =
              LocalVersionOf(hasher[c].content_hash, HasherStat(c).mtime,
                             HasherStat(c).size, now)]
    /\ hasher' = [hasher EXCEPT ![c] = IdleHasher]
    /\ UNCHANGED srvOthers
    /\ UNCHANGED <<now, edits, disk, file_versions, content_backends, remote_content,
                   content_db, extra_content_known, last_content_rebuild, uploader,
                   content_uploaded>>

\* Only a path with no FileVersions at all counts as missing
not_in_file_versions_PathOnly(c, p) ==
    /\ local_versions[c][p].exists
    /\ local_versions[c][p].content_hash # NoHash
    /\ p \notin DOMAIN file_versions[c]

\* LocalVersion.not_in_file_versions: hashed, and no FileVersion with that path
\* and content hash
not_in_file_versions(c, p) ==
    /\ local_versions[c][p].exists
    /\ local_versions[c][p].content_hash # NoHash
    /\ IF p \in DOMAIN file_versions[c]
       THEN local_versions[c][p].content_hash \notin DOMAIN file_versions[c][p]
       ELSE TRUE

\* LocalVersionCreationOperator.step for one path
VersionCreationStep(c, p) ==
    /\ not_in_file_versions(c, p)
    /\ file_versions' = [file_versions EXCEPT ![c] =
            set_with_content(file_versions[c], p, local_versions[c][p].content_hash,
                             [mtime |-> local_versions[c][p].mtime,
                              size |-> local_versions[c][p].size])]
    /\ UNCHANGED srvOthers
    /\ UNCHANGED <<now, edits, disk, local_versions, content_backends, remote_content,
                   content_db, extra_content_known, last_content_rebuild, hasher, uploader,
                   content_uploaded>>

\* ---- ContentUploadOperator.step over the one configured backend ----

\* The index must be rebuilt: LocalBackend finds no index file; an S3Backend
\* instance has last_content_rebuild = 0.
RebuildForced(c) ==
    IF fvKind = "local" THEN ~content_db.exists ELSE ~last_content_rebuild[c]

\* What content_list returns, given the instance's extra_content_known: the
\* index (empty when there is none) merged with the extra hashes
content_list(db, extra) ==
    (IF db.exists THEN db.hashes ELSE {}) \cup extra

\* The operator's state once content_list has returned remote_hashes: the
\* locations to record and the hashes to upload
AfterContentList(up, remote_hashes) ==
    [up EXCEPT !.pc = "upload", !.locations = remote_hashes,
               !.missing = up.local_hashes \ remote_hashes,
               !.local_hashes = {}, !.walk = {}, !.clear = {}]

\* The step starts: local_hashes = all_content_hashes(), then content_list's
\* staleness test.  Whether the rebuild interval has elapsed is the clock's
\* choice.  A rebuild copies extra_content_known and walks the stored content;
\* without a rebuild content_list returns at once.
UploadBegin(c) ==
    /\ uploader[c].pc = "idle"
    /\ \E due \in BOOLEAN :
          /\ RebuildForced(c) => due
          /\ LET up == [IdleUploader EXCEPT
                            !.local_hashes = all_content_hashes(local_versions[c])]
             IN uploader' = [uploader EXCEPT ![c] =
                   IF due
                   THEN [up EXCEPT !.pc = "index", !.clear = extra_content_known[c],
                                   !.walk = StoredHashes(remote_content)]
                   ELSE AfterContentList(up,
                            content_list(content_db, extra_content_known[c]))]
    /\ UNCHANGED srvOthers
    /\ UNCHANGED <<now, edits, disk, local_versions, file_versions, content_backends,
                   remote_content, content_db, extra_content_known, last_content_rebuild,
                   hasher, content_uploaded>>

\* The rebuild overwrites the index with what the walk saw and removes the
\* copied hashes from extra_content_known; content_list then returns the index
\* merged with what is left
ContentIndexWrite(c) ==
    /\ uploader[c].pc = "index"
    /\ content_db' = [exists |-> TRUE, hashes |-> uploader[c].walk]
    /\ extra_content_known' =
          [extra_content_known EXCEPT ![c] = @ \ uploader[c].clear]
    /\ last_content_rebuild' =
          IF fvKind = "s3" THEN [last_content_rebuild EXCEPT ![c] = TRUE]
          ELSE last_content_rebuild
    /\ uploader' = [uploader EXCEPT ![c] =
            AfterContentList(uploader[c],
                             content_list(content_db', extra_content_known'[c]))]
    /\ UNCHANGED srvOthers
    /\ UNCHANGED <<now, edits, disk, local_versions, file_versions, content_backends,
                   remote_content, hasher, content_uploaded>>

\* by_content_hash raises KeyError: the hash vanished from the LocalVersions
UploadVanished(c, h) ==
    /\ uploader[c].pc = "upload"
    /\ h \in uploader[c].missing
    /\ PathsWithHash(local_versions[c], h) = <<>>
    /\ uploader' = [uploader EXCEPT ![c] = [uploader[c] EXCEPT !.missing = @ \ {h}]]
    /\ UNCHANGED srvOthers
    /\ UNCHANGED <<now, edits, disk, local_versions, file_versions, content_backends,
                   remote_content, content_db, extra_content_known, last_content_rebuild,
                   hasher, content_uploaded>>

\* BaseBackend.content_upload on S3: the bytes of the first path recorded with
\* hash h are written under h, and h joins extra_content_known
S3ContentUpload(c, h) ==
    /\ fvKind = "s3"
    /\ uploader[c].pc = "upload"
    /\ h \in uploader[c].missing
    /\ PathsWithHash(local_versions[c], h) # <<>>
    /\ LET path == Head(PathsWithHash(local_versions[c], h))
       IN remote_content' = [remote_content EXCEPT ![h] = disk[c][path].body]
    /\ extra_content_known' = [extra_content_known EXCEPT ![c] = @ \cup {h}]
    /\ content_uploaded' = [content_uploaded EXCEPT ![c] = @ \cup {h}]
    /\ uploader' = [uploader EXCEPT ![c] = [uploader[c] EXCEPT !.missing = @ \ {h}]]
    /\ UNCHANGED srvOthers
    /\ UNCHANGED <<now, edits, disk, local_versions, file_versions, content_backends,
                   content_db, last_content_rebuild, hasher>>

\* LocalBackend.content_upload, the copy: shutil.copyfile onto the content path
LocalContentCopy(c, h) ==
    /\ fvKind = "local"
    /\ uploader[c].pc = "upload"
    /\ h \in uploader[c].missing
    /\ PathsWithHash(local_versions[c], h) # <<>>
    /\ LET path == Head(PathsWithHash(local_versions[c], h))
       IN remote_content' = [remote_content EXCEPT ![h] = disk[c][path].body]
    /\ uploader' = [uploader EXCEPT ![c] =
            [uploader[c] EXCEPT !.pc = "verify", !.current = h]]
    /\ UNCHANGED srvOthers
    /\ UNCHANGED <<now, edits, disk, local_versions, file_versions, content_backends,
                   content_db, extra_content_known, last_content_rebuild, hasher,
                   content_uploaded>>

\* LocalBackend.content_upload, the verification, when the copy is still there:
\* a wrong hash unlinks the copy and raises BackendError, which the operator
\* logs; a right hash adds h to extra_content_known
LocalContentVerify(c) ==
    /\ uploader[c].pc = "verify"
    /\ LET h == uploader[c].current
       IN /\ remote_content[h] # NotStored
          /\ IF Sha256(remote_content[h]) # h
             THEN /\ remote_content' = [remote_content EXCEPT ![h] = NotStored]
                  /\ content_uploaded' = [d \in Checkouts |-> content_uploaded[d] \ {h}]
                  /\ UNCHANGED extra_content_known
             ELSE /\ extra_content_known' = [extra_content_known EXCEPT ![c] = @ \cup {h}]
                  /\ content_uploaded' = [content_uploaded EXCEPT ![c] = @ \cup {h}]
                  /\ UNCHANGED remote_content
          /\ uploader' = [uploader EXCEPT ![c] =
                [uploader[c] EXCEPT !.pc = "upload", !.missing = @ \ {h},
                                    !.current = NoHash]]
    /\ UNCHANGED srvOthers
    /\ UNCHANGED <<now, edits, disk, local_versions, file_versions, content_backends,
                   content_db, last_content_rebuild, hasher>>

\* LocalBackend.content_upload, the verification, when another instance has
\* unlinked the copy meanwhile: read_bytes raises FileNotFoundError, which is
\* no BackendError, so the step ends in BaseOperator.run's handler
LocalContentVerifyGone(c) ==
    /\ uploader[c].pc = "verify"
    /\ remote_content[uploader[c].current] = NotStored
    /\ uploader' = [uploader EXCEPT ![c] = IdleUploader]
    /\ UNCHANGED srvOthers
    /\ UNCHANGED <<now, edits, disk, local_versions, file_versions, content_backends,
                   remote_content, content_db, extra_content_known, last_content_rebuild,
                   hasher, content_uploaded>>

\* content_backends.set_all(content_locations) and the step returns
UploadFinish(c) ==
    /\ uploader[c].pc = "upload"
    /\ uploader[c].missing = {}
    /\ content_backends' = [content_backends EXCEPT ![c] = uploader[c].locations]
    /\ uploader' = [uploader EXCEPT ![c] = IdleUploader]
    /\ UNCHANGED srvOthers
    /\ UNCHANGED <<now, edits, disk, local_versions, file_versions, remote_content,
                   content_db, extra_content_known, last_content_rebuild, hasher,
                   content_uploaded>>

\* The threads Server.run starts, per checkout: scanner, hasher, version
\* creation and content upload; and the user and the clock
NextSRV ==
    \/ Tick
    \/ \E c \in Editors, p \in Paths, b \in Bodies : UserWrite(c, p, b)
    \/ \E c \in Checkouts : ScannerStep(c)
    \/ \E c \in Checkouts, p \in Paths : HasherRead(c, p)
    \/ \E c \in Checkouts : HasherStore(c)
    \/ \E c \in Checkouts, p \in Paths : VersionCreationStep(c, p)
    \/ \E c \in Checkouts : UploadBegin(c)
    \/ \E c \in Checkouts : ContentIndexWrite(c)
    \/ \E c \in Checkouts, h \in Hashes : UploadVanished(c, h)
    \/ \E c \in Checkouts, h \in Hashes : S3ContentUpload(c, h)
    \/ \E c \in Checkouts, h \in Hashes : LocalContentCopy(c, h)
    \/ \E c \in Checkouts : LocalContentVerify(c)
    \/ \E c \in Checkouts : LocalContentVerifyGone(c)
    \/ \E c \in Checkouts : UploadFinish(c)

SpecSRV == InitSRV /\ [][NextSRV]_vars

\* Every operator thread keeps running: BaseOperator.run calls step again
\* after every sleep, whatever step returned or raised.
FairSpecSRV ==
    /\ SpecSRV
    /\ \A c \in Checkouts :
          /\ WF_vars(ScannerStep(c))
          /\ WF_vars(\E p \in Paths : HasherRead(c, p))
          /\ WF_vars(HasherStore(c))
          /\ WF_vars(\E p \in Paths : VersionCreationStep(c, p))
          /\ WF_vars(UploadBegin(c))
          /\ WF_vars(ContentIndexWrite(c))
          /\ WF_vars(\E h \in Hashes : UploadVanished(c, h))
          /\ WF_vars(\E h \in Hashes : S3ContentUpload(c, h))
          /\ WF_vars(\E h \in Hashes : LocalContentCopy(c, h))
          /\ WF_vars(LocalContentVerify(c))
          /\ WF_vars(LocalContentVerifyGone(c))
          /\ WF_vars(UploadFinish(c))

\* C6: every content body stored on the backend under hash h has SHA-256 h,
\* in every state in which no copy is waiting for its verification (the claim
\* is about every reachable state; these states are enough to refute it).
C6_StoredBodiesMatchHash ==
    (\A c \in Checkouts : uploader[c].pc # "verify")
    => \A h \in Hashes :
          remote_content[h] # NotStored => Sha256(remote_content[h]) = h

\* content_list returns on instance c in this step
ContentListReturns(c) ==
    /\ uploader[c].pc \in {"idle", "index"}
    /\ uploader'[c].pc = "upload"

\* C7: once content_upload(h) has returned on an instance, and while h is
\* still stored, every content_list that returns on that instance contains h.
C7_UploadedIsListed ==
    [][\A c \in Checkouts :
          ContentListReturns(c)
          => (content_uploaded[c] \cap StoredHashes(remote_content))
                \subseteq uploader'[c].locations]_vars

\* Every (path, content_hash) pair that any checkout or the backend holds
AllFileVersionPairs ==
    PairsOf(FileVersionDownload(fvObj)) \cup
    UNION {PairsOf(file_versions[c]) : c \in Checkouts}

\* Every checkout's FileVersion store and the backend's metadata hold the same
\* pairs, the union of what any of them held
FileVersionsConverged ==
    /\ \A c \in Checkouts : PairsOf(file_versions[c]) = AllFileVersionPairs
    /\ PairsOf(FileVersionDownload(fvObj)) = AllFileVersionPairs

\* C8: FileVersion metadata converges: with the servers running, once the
\* edits have stopped (they are finitely many), eventually and from then on
\* every checkout's FileVersion store and the backend's file-versions metadata
\* hold the same set of (path, content_hash) pairs.
C8_FileVersionsConverge == <>[]FileVersionsConverged

\* content_exists(sha256sum) on the backend
content_exists(h) == remote_content[h] # NotStored

\* file_version_download() contains path -> {hash: {mtime, size}}
DownloadContains(p, h, meta) ==
    LET db == FileVersionDownload(fvObj)
    IN IF p \in DOMAIN db
       THEN IF h \in DOMAIN db[p] THEN db[p][h] = meta ELSE FALSE
       ELSE FALSE

\* The file at path p of checkout c has reached the backend: its body is
\* stored under its hash and its entry is in the file-versions metadata
FilePublished(c, p) ==
    /\ content_exists(Sha256(disk[c][p].body))
    /\ DownloadContains(p, Sha256(disk[c][p].body),
                        [mtime |-> disk[c][p].mtime, size |-> SizeOf(disk[c][p].body)])

\* C10: a file written into a checkout and then left unchanged, with the
\* server's operators running, eventually has its body on the backend under
\* sha256(body) and its entry path -> {sha256(body): {mtime, size}} in the
\* backend's file-versions metadata.
C10_FileEventuallyPublished ==
    <>[](\A c \in Checkouts, p \in Paths : disk[c][p].exists => FilePublished(c, p))

----------------------------------------------------------------------------
(* The materializer: LocalCreateOperator.step driven on one checkout       *)

\* The reserved content hash that marks a tombstone entry
DELETED_CONTENT_HASH == <<"__deleted__">>

\* PathRequestType
Statuses == {"full", "on-demand", "download-once", "ignore"}

\* The paths a PathRequest may be set on
RequestKeys == {"/", "/a"}

\* Path(path).parent; the root is its own parent
Parent(path) == IF path = "/a/b" THEN "/a" ELSE "/"

\* PathRequest.resolve_status: the path, then each parent, while the path
\* differs from its parent; on-demand when the loop ends
RECURSIVE resolve_status(_, _)
resolve_status(requests, path) ==
    IF path = Parent(path) THEN "on-demand"
    ELSE IF path \in DOMAIN requests THEN requests[path]
    ELSE resolve_status(requests, Parent(path))

\* FileVersion.most_recent_content: the hashes the call may return, namely the
\* entries of path with the largest mtime (the sort is stable, so entries with
\* equal mtime come in the order the dict holds them, which the store does not
\* model); empty for (None, None)
most_recent_content(fvs, path) ==
    IF path \notin DOMAIN fvs THEN {}
    ELSE {h \in DOMAIN fvs[path] :
             \A g \in DOMAIN fvs[path] : fvs[path][g].mtime <= fvs[path][h].mtime}

\* FileVersion.deleted_paths: the paths whose mtime-maximum entry is the
\* deleted sentinel
deleted_paths(fvs) ==
    {p \in DOMAIN fvs : DELETED_CONTENT_HASH \in most_recent_content(fvs, p)}

\* The checkout whose materializer runs
Materializers == {"B"}

\* The largest mtime of a FileVersion entry that a peer has published
MaxMtime == 2

\* The body a hash names, and the size its entry carries
BodyOf(h) == IF h = Sha256("x") THEN "x" ELSE "y"

EntrySize(h) == IF h = DELETED_CONTENT_HASH THEN 0 ELSE SizeOf(BodyOf(h))

\* The entries a path may have got from the backend's metadata
ReceivedEntries ==
    UNION {[K -> 0..MaxMtime] : K \in SUBSET (Hashes \cup {DELETED_CONTENT_HASH})}

\* The FileVersion store holding entries (hash -> mtime) for path /a
StoreOf(entries) ==
    IF DOMAIN entries = {} THEN EmptyDB
    ELSE [p \in {"/a"} |->
            [h \in DOMAIN entries |-> [mtime |-> entries[h], size |-> EntrySize(h)]]]

\* The backend holds some bodies, each under a hash that is its own or, after
\* an upload of a file that changed while it was hashed, another one; the materializing
\* checkout has PathRequests, possibly a file that an earlier run has scanned,
\* hashed and versioned, and the FileVersions of that file merged with the
\* entries that other checkouts have published.
InitMAT ==
    /\ now = 0
    /\ edits = 0
    /\ \E f \in InitialFiles :
          /\ disk = [c \in Checkouts |-> [p \in Paths |->
                        IF c \in Materializers THEN f ELSE NoFile]]
          /\ local_versions = [c \in Checkouts |-> [p \in Paths |->
                        SettledLocalVersion(disk[c][p])]]
          /\ \E entries \in ReceivedEntries :
                file_versions = [c \in Checkouts |->
                    IF c \in Materializers
                    THEN MergeFileVersions(StoreOf(entries), SettledFileVersions(disk[c]))
                    ELSE EmptyDB]
    /\ content_backends = [c \in Checkouts |-> {}]
    /\ remote_content \in [Hashes -> {NotStored} \cup Bodies]
    /\ content_db = [exists |-> FALSE, hashes |-> {}]
    /\ extra_content_known = [c \in Checkouts |-> {}]
    /\ last_content_rebuild = [c \in Checkouts |-> FALSE]
    /\ hasher = [c \in Checkouts |-> IdleHasher]
    /\ uploader = [c \in Checkouts |-> IdleUploader]
    /\ content_uploaded = [c \in Checkouts |-> {}]
    /\ \E requests \in UNION {[K -> Statuses] : K \in SUBSET RequestKeys} :
          path_requests = [c \in Checkouts |->
                              IF c \in Materializers THEN requests ELSE NoRequests]
    /\ creator = [c \in Checkouts |-> IdleCreator]
    /\ FVUIdle
    /\ RWIdle
    /\ LIBIdle

\* The deletion pass without the unlink: the LocalVersion goes, the file stays
MaterializerDelete_KeepsFile(c, p) ==
    /\ ~creator[c].busy
    /\ p \in deleted_paths(file_versions[c])
    /\ local_versions[c][p].exists
    /\ local_versions' = [local_versions EXCEPT ![c][p] = NoLocalVersion]
    /\ creator' = [creator EXCEPT ![c] = [creator[c] EXCEPT !.did = "deleted"]]
    /\ UNCHANGED matOthers
    /\ UNCHANGED <<now, edits, disk, file_versions, content_backends, remote_content,
                   content_db, extra_content_known, last_content_rebuild, hasher, uploader,
                   content_uploaded, path_requests>>

\* The deletion pass for one path: a path of deleted_paths() that has a
\* LocalVersion loses its file, if there is one, and its LocalVersion
MaterializerDelete(c, p) ==
    /\ ~creator[c].busy
    /\ p \in deleted_paths(file_versions[c])
    /\ local_versions[c][p].exists
    /\ disk' = [disk EXCEPT ![c][p] = NoFile]
    /\ local_versions' = [local_versions EXCEPT ![c][p] = NoLocalVersion]
    /\ creator' = [creator EXCEPT ![c] = [creator[c] EXCEPT !.did = "deleted"]]
    /\ UNCHANGED matOthers
    /\ UNCHANGED <<now, edits, file_versions, content_backends, remote_content, content_db,
                   extra_content_known, last_content_rebuild, hasher, uploader,
                   content_uploaded, path_requests>>

\* Only on-demand stops the download pass
SkippedStatuses_OnDemandOnly == {"on-demand"}

\* path_status == "on-demand" or path_status == "ignore": not synced
SkippedStatuses == {"on-demand", "ignore"}

\* The download pass passes over a path that has FileVersions and no
\* LocalVersion: its status is on-demand or ignore, or its most recent entry is
\* the sentinel, or no backend has the content
MaterializerSkip(c, p) ==
    /\ ~creator[c].busy
    /\ p \in DOMAIN file_versions[c]
    /\ ~local_versions[c][p].exists
    /\ \/ resolve_status(path_requests[c], p) \in SkippedStatuses
       \/ \E h \in most_recent_content(file_versions[c], p) :
             IF h = DELETED_CONTENT_HASH THEN TRUE ELSE ~content_exists(h)
    /\ creator' = [creator EXCEPT ![c] = [creator[c] EXCEPT !.did = "skipped"]]
    /\ UNCHANGED matOthers
    /\ UNCHANGED <<now, edits, disk, local_versions, file_versions, content_backends,
                   remote_content, content_db, extra_content_known, last_content_rebuild,
                   hasher, uploader, content_uploaded, path_requests>>

\* The download pass for one path that has FileVersions and no LocalVersion:
\* skipped when the status is on-demand or ignore, when there is no entry, when
\* the most recent entry is the sentinel, or when no backend has the content;
\* else the body goes to the temporary file, with the entry's mtime, and the
\* LocalVersion is inserted with content_hash None
MaterializerDownload(c, p, h) ==
    /\ ~creator[c].busy
    /\ p \in DOMAIN file_versions[c]
    /\ ~local_versions[c][p].exists
    /\ resolve_status(path_requests[c], p) \notin SkippedStatuses
    /\ h \in most_recent_content(file_versions[c], p)
    /\ h # DELETED_CONTENT_HASH
    /\ content_exists(h)
    /\ creator' = [creator EXCEPT ![c] =
            [busy |-> TRUE, path |-> p, body |-> remote_content[h],
             mtime |-> file_versions[c][p][h].mtime, did |-> creator[c].did]]
    /\ local_versions' = [local_versions EXCEPT ![c][p] =
            LocalVersionOf(NoHash, file_versions[c][p][h].mtime,
                           file_versions[c][p][h].size, -1)]
    /\ UNCHANGED matOthers
    /\ UNCHANGED <<now, edits, disk, file_versions, content_backends, remote_content,
                   content_db, extra_content_known, last_content_rebuild, hasher, uploader,
                   content_uploaded, path_requests>>

\* temporary_destination.rename(final_destination)
MaterializerRename(c) ==
    /\ creator[c].busy
    /\ disk' = [disk EXCEPT ![c][creator[c].path] =
                    FileOf(creator[c].body, creator[c].mtime)]
    /\ creator' = [creator EXCEPT ![c] = [IdleCreator EXCEPT !.did = "created"]]
    /\ UNCHANGED matOthers
    /\ UNCHANGED <<now, edits, local_versions, file_versions, content_backends,
                   remote_content, content_db, extra_content_known, last_content_rebuild,
                   hasher, uploader, content_uploaded, path_requests>>

NextMAT ==
    \/ \E c \in Materializers, p \in Paths : MaterializerDelete(c, p)
    \/ \E c \in Materializers, p \in Paths : MaterializerSkip(c, p)
    \/ \E c \in Materializers, p \in Paths, h \in Hashes : MaterializerDownload(c, p, h)
    \/ \E c \in Materializers : MaterializerRename(c)

SpecMAT == InitMAT /\ [][NextMAT]_vars

\* The materializer's thread keeps running
FairSpecMAT ==
    /\ SpecMAT
    /\ \A c \in Materializers :
          /\ WF_vars(\E p \in Paths : MaterializerDelete(c, p))
          /\ WF_vars(\E p \in Paths : MaterializerSkip(c, p))
          /\ WF_vars(\E p \in Paths, h \in Hashes : MaterializerDownload(c, p, h))
          /\ WF_vars(MaterializerRename(c))

\* Path p of checkout c is synced in full, has a file with a LocalVersion, and
\* its FileVersions have one mtime-maximum entry, a content that the backend
\* holds
NewerVersionPublished(c, p, h) ==
    /\ resolve_status(path_requests[c], p) = "full"
    /\ local_versions[c][p].exists
    /\ disk[c][p].exists
    /\ most_recent_content(file_versions[c], p) = {h}
    /\ content_exists(h)

\* C9: the most recent version wins: on a checkout that has a file and a
\* LocalVersion for a path synced in full, once the FileVersion store holds a
\* newer entry for the path and the edits have stopped, the local file
\* eventually holds the content of the mtime-maximum entry.
C9_MostRecentWins ==
    <>[](\A c \in Materializers, p \in Paths, h \in Hashes :
            NewerVersionPublished(c, p, h) => Sha256(disk[c][p].body) = h)

\* Checkout c is synced in full from the root only, has no LocalVersion for
\* p, and the newest FileVersion entry of p is content h, held by the backend
RootFullAndPublished(c, p, h) ==
    /\ DOMAIN path_requests[c] = {"/"}
    /\ path_requests[c]["/"] = "full"
    /\ ~local_versions[c][p].exists
    /\ ~creator[c].busy
    /\ most_recent_content(file_versions[c], p) = {h}
    /\ content_exists(h)

\* The file of p is on c's disk with the body and mtime of entry h, and c has
\* a LocalVersion for p
Materialized(c, p, h) ==
    /\ disk[c][p].exists
    /\ disk[c][p].body = BodyOf(h)
    /\ IF p \in DOMAIN file_versions[c]
       THEN IF h \in DOMAIN file_versions[c][p]
            THEN disk[c][p].mtime = file_versions[c][p][h].mtime
            ELSE FALSE
       ELSE FALSE
    /\ local_versions[c][p].exists

\* C11: cross-checkout propagation: when the backend holds a file's body and
\* checkout B, with PathRequest / = full and nothing more specific, has got the
\* file's FileVersion, the materializer's steps lead to the file on B's disk
\* with the publisher's content and mtime, and to a LocalVersion for the path.
C11_CrossCheckoutPropagation ==
    \A c \in Materializers, p \in Paths, h \in Hashes :
        RootFullAndPublished(c, p, h) ~> Materialized(c, p, h)

\* The backend holds, under hash h, bytes whose SHA-256 is not h
CorruptContent(h) ==
    /\ content_exists(h)
    /\ Sha256(remote_content[h]) # h

\* C16: an integrity failure is never recovered silently: when the body the
\* materializer downloads for a path has a SHA-256 other than the requested
\* hash, no file appears at the path and no LocalVersion is inserted for it.
C16_NoCorruptMaterialization ==
    [][\A c \in Materializers, p \in Paths :
          (\A h \in most_recent_content(file_versions[c], p) :
                IF h = DELETED_CONTENT_HASH THEN TRUE ELSE CorruptContent(h))
          => /\ ~disk[c][p].exists => ~disk'[c][p].exists
             /\ ~local_versions[c][p].exists => ~local_versions'[c][p].exists]_vars

----------------------------------------------------------------------------
(* One checkout's local pipeline: scanner, hasher and version creation,    *)
(* with a user who writes and deletes files                                *)

\* The PathRequest stores a checkout may have
RequestStores == UNION {[K -> Statuses] : K \in SUBSET RequestKeys}

\* The user deletes the file at path p of checkout c
UserDelete(c, p) ==
    /\ edits < MaxEdits
    /\ disk[c][p].exists
    /\ edits' = edits + 1
    /\ disk' = [disk EXCEPT ![c][p] = NoFile]
    /\ UNCHANGED srvOthers
    /\ UNCHANGED <<now, local_versions, file_versions, content_backends, remote_content,
                   content_db, extra_content_known, last_content_rebuild, hasher, uploader,
                   content_uploaded>>

\* The server of the editing checkout has just started, with or without a
\* file that an earlier run has scanned, hashed and versioned, and with any
\* PathRequests; the other checkout is not used.
InitLOC ==
    /\ now = 0
    /\ edits = 0
    /\ \E f \in InitialFiles :
          disk = [c \in Checkouts |-> [p \in Paths |-> IF c \in Editors THEN f ELSE NoFile]]
    /\ local_versions = [c \in Checkouts |-> [p \in Paths |-> SettledLocalVersion(disk[c][p])]]
    /\ file_versions = [c \in Checkouts |-> SettledFileVersions(disk[c])]
    /\ content_backends = [c \in Checkouts |-> {}]
    /\ remote_content = [h \in Hashes |-> NotStored]
    /\ content_db = [exists |-> FALSE, hashes |-> {}]
    /\ extra_content_known = [c \in Checkouts |-> {}]
    /\ last_content_rebuild = [c \in Checkouts |-> FALSE]
    /\ hasher = [c \in Checkouts |-> IdleHasher]
    /\ uploader = [c \in Checkouts |-> IdleUploader]
    /\ content_uploaded = [c \in Checkouts |-> {}]
    /\ \E requests \in RequestStores :
          path_requests = [c \in Checkouts |-> IF c \in Editors THEN requests ELSE NoRequests]
    /\ creator = [c \in Checkouts |-> IdleCreator]
    /\ FVUIdle
    /\ RWIdle
    /\ LIBIdle

NextLOC ==
    \/ Tick
    \/ \E c \in Editors, p \in Paths, b \in Bodies : UserWrite(c, p, b)
    \/ \E c \in Editors, p \in Paths : UserDelete(c, p)
    \/ \E c \in Editors : ScannerStep(c)
    \/ \E c \in Editors, p \in Paths : HasherRead(c, p)
    \/ \E c \in Editors : HasherStore(c)
    \/ \E c \in Editors, p \in Paths : VersionCreationStep(c, p)

SpecLOC == InitLOC /\ [][NextLOC]_vars

\* The scanner, hasher and version-creation threads keep running
FairSpecLOC ==
    /\ SpecLOC
    /\ \A c \in Editors :
          /\ WF_vars(ScannerStep(c))
          /\ WF_vars(\E p \in Paths : HasherRead(c, p))
          /\ WF_vars(HasherStore(c))
          /\ WF_vars(\E p \in Paths : VersionCreationStep(c, p))

\* C39: a LocalVersion's content_hash does not stay out of date: a file that
\* is modified at any moment relative to the hasher processing it (also
\* between the hasher's read and its stat, or within the whole second of the
\* recorded mtime) and is then left unchanged eventually has the SHA-256 of
\* its final contents recorded by the scanner and the hasher.
C39_HashCatchesUp ==
    <>[](\A c \in Editors, p \in Paths :
            disk[c][p].exists =>
                /\ local_versions[c][p].exists
                /\ local_versions[c][p].content_hash = Sha256(disk[c][p].body))

\* The file of p has disappeared from checkout c, which still has its
\* LocalVersion, and the policy of p resolves to full
DeletedUnderFull(c, p) ==
    /\ ~disk[c][p].exists
    /\ local_versions[c][p].exists
    /\ resolve_status(path_requests[c], p) = "full"

\* The path is a tombstone: its mtime-maximum entry is the deleted sentinel
Tombstoned(c, p) ==
    most_recent_content(file_versions[c], p) = {DELETED_CONTENT_HASH}

\* C12: when a file that has a LocalVersion disappears from disk and its
\* policy resolves to full, the scanner makes the path a tombstone: from some
\* point on, a path in that situation has the deleted sentinel as its
\* mtime-maximum FileVersion entry.
C12_DeletionBecomesTombstone ==
    <>[](\A c \in Editors, p \in Paths : DeletedUnderFull(c, p) => Tombstoned(c, p))

C14_NoDownloadUnlessRequested ==
    [][\A c \in Materializers, p \in Paths :
          resolve_status(path_requests[c], p) \in {"on-demand", "ignore"}
          => /\ ~disk[c][p].exists => ~disk'[c][p].exists
             /\ ~local_versions[c][p].exists => ~local_versions'[c][p].exists]_vars

\* the download pass has passed over a path that resolves to ignore although
\* the backend holds the content of its most recent entry
C14_Witness ==
    \E c \in Materializers, p \in Paths, h \in Hashes :
        /\ resolve_status(path_requests[c], p) = "ignore"
        /\ creator[c].did = "skipped"
        /\ most_recent_content(file_versions[c], p) = {h}
        /\ content_exists(h)
        /\ ~disk[c][p].exists
        /\ ~local_versions[c][p].exists

\* The LocalVersion of p on c is hashed
Hashed(c, p) ==
    /\ local_versions[c][p].exists
    /\ local_versions[c][p].content_hash # NoHash

\* The FileVersion store of c has an entry for p and the LocalVersion's hash
HasFileVersion(c, p) ==
    IF p \in DOMAIN file_versions[c]
    THEN local_versions[c][p].content_hash \in DOMAIN file_versions[c][p]
    ELSE FALSE

\* That entry carries the LocalVersion's mtime and size
FileVersionCarriesLocalMeta(c, p) ==
    IF HasFileVersion(c, p)
    THEN file_versions[c][p][local_versions[c][p].content_hash] =
            [mtime |-> local_versions[c][p].mtime, size |-> local_versions[c][p].size]
    ELSE FALSE

\* C15 as stated: for every LocalVersion with a non-null content_hash a
\* FileVersion entry with the same (path, content_hash) eventually exists and
\* carries the LocalVersion's mtime and size.
C15_VersionCreatedWithLocalMeta ==
    <>[](\A c \in Editors, p \in Paths : Hashed(c, p) => FileVersionCarriesLocalMeta(c, p))

\* C15, amended: for every LocalVersion with a non-null content_hash a
\* FileVersion entry with the same (path, content_hash) eventually exists; the
\* entry carries the LocalVersion's mtime and size at the step that inserts it,
\* and is not rewritten when the LocalVersion is hashed again later.
C15_VersionCreated ==
    /\ <>[](\A c \in Editors, p \in Paths : Hashed(c, p) => HasFileVersion(c, p))
    /\ [][\A c \in Editors, p \in Paths :
            /\ (Hashed(c, p) /\ ~HasFileVersion(c, p) /\ HasFileVersion(c, p)')
               => FileVersionCarriesLocalMeta(c, p)'
            /\ \A h \in Hashes :
                 (p \in DOMAIN file_versions[c] /\ h \in DOMAIN file_versions[c][p])
                 => file_versions'[c][p][h] = file_versions[c][p][h]]_vars

\* a file rewritten later with the same body: its LocalVersion is hashed anew
\* and the pair's FileVersion entry keeps the older mtime
C15_Witness ==
    \E c \in Editors, p \in Paths :
        /\ Hashed(c, p)
        /\ HasFileVersion(c, p)
        /\ file_versions[c][p][local_versions[c][p].content_hash].mtime
              < local_versions[c][p].mtime

----------------------------------------------------------------------------
(* AESEncryptor: a file encrypted in chunks and the stream that decrypts   *)
(* it                                                                      *)

\* BaseEncryptor.chunk_size, scaled down
ChunkSize == 2

MaxPlainLen == 5

NONCE_SIZE == 12

TAG_SIZE == 16

PlainBytes == {"p", "q"}

\* The keys an AESEncryptor may be built with
Keys == {"key-one", "key-two"}

Plaintexts == UNION {[1..n -> PlainBytes] : n \in 0..MaxPlainLen}

\* One byte of the object: a byte of a length prefix (n its value), of the
\* nonce of chunk k, of a ciphertext (v the plaintext byte it hides under
\* key) or of a tag (of the plaintext it authenticates under key)
ObjectByte(kind, key, k, i, n, v, of) ==
    [kind |-> kind, key |-> key, k |-> k, i |-> i, n |-> n, v |-> v, of |-> of]

\* struct.pack(">I", n)
PackLength(n) ==
    [j \in 1..4 |-> ObjectByte("len", "", 0, j, (n \div (256 ^ (4 - j))) % 256, "", <<>>)]

\* struct.unpack(">I", length_bytes)[0]
UnpackLength(length_bytes) ==
    length_bytes[1].n * (256 ^ 3) + length_bytes[2].n * (256 ^ 2)
        + length_bytes[3].n * 256 + length_bytes[4].n

\* os.urandom(NONCE_SIZE) for the k-th chunk
Nonce(k) == [i \in 1..NONCE_SIZE |-> ObjectByte("nonce", "", k, i, 0, "", <<>>)]

\* AESGCM.encrypt(nonce, plaintext, None): the ciphertext, as long as the
\* plaintext, and the tag
AESGCM_encrypt(key, nonce, plaintext) ==
    [i \in 1..Len(plaintext) |->
        ObjectByte("ct", key, nonce[1].k, i, 0, plaintext[i], <<>>)]
    \o [j \in 1..TAG_SIZE |-> ObjectByte("tag", key, nonce[1].k, j, 0, "", plaintext)]

\* AESGCM.decrypt(nonce, data, None): the plaintext, or the exception raised
AESGCM_decrypt(key, nonce, data) ==
    IF Len(nonce) < 8 THEN [error |-> "ValueError", plaintext |-> <<>>]
    ELSE IF Len(data) < TAG_SIZE THEN [error |-> "InvalidTag", plaintext |-> <<>>]
    ELSE LET plaintext == [i \in 1..(Len(data) - TAG_SIZE) |-> data[i].v]
         IN IF data = AESGCM_encrypt(key, nonce, plaintext)
            THEN [error |-> "", plaintext |-> plaintext]
            ELSE [error |-> "InvalidTag", plaintext |-> <<>>]

Min(a, b) == IF a < b THEN a ELSE b

\* _EncryptingStream._encrypt_chunk for the k-th chunk
EncryptChunk(key, plaintext, k) ==
    LET chunk_data == Nonce(k) \o AESGCM_encrypt(key, Nonce(k), plaintext)
    IN PackLength(Len(chunk_data)) \o chunk_data

RECURSIVE EncryptFrom(_, _, _)
\* _EncryptingStream.read(-1): the chunks of the source, from the k-th on
EncryptFrom(key, source, k) ==
    IF source = <<>> THEN <<>>
    ELSE EncryptChunk(key, SubSeq(source, 1, Min(ChunkSize, Len(source))), k)
         \o EncryptFrom(key, SubSeq(source, Min(ChunkSize, Len(source)) + 1, Len(source)),
                        k + 1)

\* AESEncryptor(key).encrypt_file(content).read()
encrypt_file(key, content) == EncryptFrom(key, content, 1)

\* fh.read(size) at position pos
FhRead(object, pos, size) == SubSeq(object, pos + 1, Min(pos + size, Len(object)))

\* A stream just opened on an object
OpenStream ==
    [pos |-> 0, buffer |-> <<>>, status |-> "reading", out |-> <<>>, ended |-> FALSE]

\* An object encrypted from some plaintext is stored whole or cut short at
\* some byte offset; a reader opens it
InitENC ==
    /\ enc_key \in Keys
    /\ enc_plain \in Plaintexts
    /\ \E cut \in 0..Len(encrypt_file(enc_key, enc_plain)) :
          enc_object = SubSeq(encrypt_file(enc_key, enc_plain), 1, cut)
    /\ dec = OpenStream
    /\ RUNIdle
    /\ DSIdle
    /\ RSIdle
    /\ MRIdle
    /\ CLIdle
    /\ HSIdle
    /\ SCIdle
    /\ LCIdle
    /\ DCIdle
    /\ CUIdle
    /\ SWIdle
    /\ SMIdle
    /\ TCIdle
    /\ FVUIdle
    /\ RWIdle
    /\ SRVIdle
    /\ MATIdle

\* _DecryptingStream._decrypt_chunk on stream d over object, with the
\* buffer += of its caller: the plaintext of the next chunk goes to the
\* buffer; the end of the source sets _eof, an exception leaves the read
decrypt_chunk(key, object, d) ==
    LET length_bytes == FhRead(object, d.pos, 4)
    IN IF length_bytes = <<>>
       THEN [d EXCEPT !.status = "eof"]
       ELSE IF Len(length_bytes) < 4
       THEN [d EXCEPT !.status = "struct.error", !.pos = d.pos + Len(length_bytes)]
       ELSE LET chunk_len == UnpackLength(length_bytes)
                chunk_data == FhRead(object, d.pos + 4, chunk_len)
                nonce == SubSeq(chunk_data, 1, Min(NONCE_SIZE, Len(chunk_data)))
                ciphertext == SubSeq(chunk_data, NONCE_SIZE + 1, Len(chunk_data))
                result == AESGCM_decrypt(key, nonce, ciphertext)
            IN [d EXCEPT !.pos = d.pos + 4 + Len(chunk_data),
                         !.buffer = d.buffer \o result.plaintext,
                         !.status = IF result.error = "" THEN "reading"
                                    ELSE result.error]

\* One turn of the loop of _DecryptingStream.read(-1)
DecryptChunk ==
    /\ dec.status = "reading"
    /\ dec' = decrypt_chunk(enc_key, enc_object, dec)
    /\ UNCHANGED <<enc_key, enc_plain, enc_object>>
    /\ UNCHANGED encOthers

NextENC == DecryptChunk

SpecENC == InitENC /\ [][NextENC]_vars

\* The stored object is shorter than what the encrypting stream produced
CutShort == Len(enc_object) < Len(encrypt_file(enc_key, enc_plain))

\* C17: a reader of an encrypted object cut short at any byte offset before
\* its end gets an error: the decrypting stream never ends its read cleanly
\* with a proper prefix of the plaintext.
C17_TruncationDetected ==
    (CutShort /\ dec.status = "eof") => dec.buffer = enc_plain

----------------------------------------------------------------------------
(* BaseOperator.run: the loop around step()                                *)

interval_short == 1

interval_long == 30

\* time.sleep(30) of the exception handler
ErrorSleep == 30

\* What a step() may raise
StepExceptions == {"BackendError", "VersionError", "KeyError", "KeyboardInterrupt"}

\* except Exception: KeyboardInterrupt and SystemExit pass through
Caught_ExceptionOnly == StepExceptions \ {"KeyboardInterrupt"}

\* except BaseException: every exception is caught
Caught == StepExceptions

\* Server.run has started every operator's thread: running is True and
\* interval is interval_short
InitRUN ==
    /\ worker = [o \in Operators |->
                    [pc |-> "loop", interval |-> interval_short, sleep |-> 0, last |-> "",
                     idle_steps |-> 0]]
    /\ ENCIdle
    /\ DSIdle
    /\ RSIdle
    /\ MRIdle
    /\ CLIdle
    /\ HSIdle
    /\ SCIdle
    /\ LCIdle
    /\ DCIdle
    /\ CUIdle
    /\ SWIdle
    /\ SMIdle
    /\ TCIdle
    /\ FVUIdle
    /\ RWIdle
    /\ SRVIdle
    /\ MATIdle

\* while self.running: ... self.step() is called, at the start and after a
\* sleep has run out
StepCall(o) ==
    /\ \/ worker[o].pc = "loop"
       \/ worker[o].pc = "sleeping" /\ worker[o].sleep = 0
    /\ worker' = [worker EXCEPT ![o] = [worker[o] EXCEPT !.pc = "in_step"]]
    /\ UNCHANGED runOthers

\* The count of no-work steps stops here: the doubling has long reached
\* interval_long
MaxIdleSteps == 7

\* A loop that doubles without the cap
NextInterval_Uncapped(interval, active) ==
    IF active THEN interval_short ELSE interval * 2

\* if active: interval = self.interval_short
\* else: interval = min(interval * 2, self.interval_long)
NextInterval(interval, active) ==
    IF active THEN interval_short ELSE Min(interval * 2, interval_long)

\* step() returns active: the interval is reset, or doubled up to
\* interval_long, and the thread sleeps for it
StepReturn(o, active) ==
    /\ worker[o].pc = "in_step"
    /\ LET interval == NextInterval(worker[o].interval, active)
       IN worker' = [worker EXCEPT ![o] =
              [pc |-> "sleeping", interval |-> interval, sleep |-> interval,
               last |-> IF active THEN "active" ELSE "idle",
               idle_steps |-> IF active THEN 0
                              ELSE Min(worker[o].idle_steps + 1, MaxIdleSteps)]]
    /\ UNCHANGED runOthers

\* step() raises e: the handler logs it and the thread sleeps 30 seconds; an
\* exception the handler does not catch ends the thread
StepRaise(o, e) ==
    /\ worker[o].pc = "in_step"
    /\ worker' = [worker EXCEPT ![o] =
          IF e \in Caught
          THEN [worker[o] EXCEPT !.pc = "sleeping", !.sleep = ErrorSleep, !.last = "raised"]
          ELSE [worker[o] EXCEPT !.pc = "dead", !.last = "raised"]]
    /\ UNCHANGED runOthers

\* A second passes for every sleeping thread
Second ==
    /\ \E o \in Operators : worker[o].pc = "sleeping" /\ worker[o].sleep > 0
    /\ worker' = [o \in Operators |->
          IF worker[o].pc = "sleeping" /\ worker[o].sleep > 0
          THEN [worker[o] EXCEPT !.sleep = worker[o].sleep - 1]
          ELSE worker[o]]
    /\ UNCHANGED runOthers

NextRUN ==
    \/ \E o \in Operators : StepCall(o)
    \/ \E o \in Operators, active \in BOOLEAN : StepReturn(o, active)
    \/ \E o \in Operators, e \in StepExceptions : StepRaise(o, e)
    \/ Second

SpecRUN == InitRUN /\ [][NextRUN]_vars

\* The threads are scheduled, every step() ends, and time passes
FairSpecRUN ==
    /\ SpecRUN
    /\ WF_vars(Second)
    /\ \A o \in Operators :
          /\ WF_vars(StepCall(o))
          /\ WF_vars(\E active \in BOOLEAN : StepReturn(o, active))

\* C18: an operator worker never stops because step() raised: after any
\* exception in step the worker sleeps 30 seconds and calls step() again, so
\* every started operator's step runs infinitely often.
C18_WorkerSurvivesExceptions ==
    /\ \A o \in Operators : []<>(worker[o].pc = "in_step")
    /\ [][\A o \in Operators :
            (worker[o].pc = "in_step" /\ worker'[o].last = "raised"
                /\ worker'[o].pc # "in_step")
            => worker'[o].pc = "sleeping" /\ worker'[o].sleep = ErrorSleep]_vars

\* step() is running again after it raised
C18_Witness ==
    \E o \in Operators : worker[o].pc = "in_step" /\ worker[o].last = "raised"

\* 2^k
RECURSIVE TwoToThe(_)
TwoToThe(k) == IF k = 0 THEN 1 ELSE 2 * TwoToThe(k - 1)

\* The worker has just gone to sleep after a step that returned
StepReturned(o) ==
    /\ worker[o].pc = "in_step"
    /\ worker'[o].pc = "sleeping"
    /\ worker'[o].last # "raised"

\* C34: in the operator loop the sleep after a step that did work is
\* interval_short, and after k consecutive no-work steps it is
\* min(interval_short * 2^k, interval_long); the interval stays within
\* [interval_short, interval_long] and is back at interval_short on the first
\* step that does work.
C34_BackoffInterval ==
    [][\A o \in Operators :
          StepReturned(o) =>
              /\ worker'[o].sleep = worker'[o].interval
              /\ worker'[o].interval >= interval_short
              /\ worker'[o].interval <= interval_long
              /\ worker'[o].last = "active" => worker'[o].sleep = interval_short
              /\ worker'[o].last = "idle" =>
                    worker'[o].sleep =
                        IF worker'[o].idle_steps < MaxIdleSteps
                        THEN Min(interval_short * TwoToThe(worker'[o].idle_steps),
                                 interval_long)
                        ELSE interval_long]_vars

\* a worker sleeps interval_long after the no-work steps it takes to get
\* there, and another sleeps interval_short after a step that did work
C34_Witness ==
    /\ \E o \in Operators :
          /\ worker[o].pc = "sleeping"
          /\ worker[o].last = "idle"
          /\ worker[o].idle_steps = 5
          /\ worker[o].sleep = interval_long
    /\ \E o \in Operators :
          /\ worker[o].pc = "sleeping"
          /\ worker[o].last = "active"
          /\ worker[o].sleep = interval_short

----------------------------------------------------------------------------
(* DiskDatastore: set, delete and set_all of the path-keyed stores         *)

\* The stores whose _validate_key is overridden
ValidatingStores == {"LocalVersion", "FileVersion", "PathRequest"}

\* Keys a caller may pass, as strings of characters
StoreKeys == {<<"/", "a">>, <<"/", "d", "/", "b">>, <<"i", "/", "p">>, <<>>}

StoreValues == {1, 2}

MaxItems == 2

\* The dicts a caller may pass to set_all, as their items in order
ItemLists ==
    UNION {[1..n -> [key : StoreKeys, value : StoreValues]] : n \in 0..MaxItems}

\* key.startswith("/")
StartsWithSlash(key) == IF Len(key) >= 1 THEN key[1] = "/" ELSE FALSE

\* DiskDatastore._validate_key: pass
validate_key_Base(kind, key) == TRUE

\* _validate_key of LocalVersion, FileVersion and PathRequest: TRUE when it
\* returns, FALSE when it raises ValueError
validate_key(kind, key) == StartsWithSlash(key)

\* txn.put(key, value)
TxnPut(txn, key, value) ==
    [k \in DOMAIN txn \cup {key} |-> IF k = key THEN value ELSE txn[k]]

\* txn.delete(key)
TxnDelete(txn, key) == [k \in DOMAIN txn \ {key} |-> txn[k]]

RECURSIVE PutAll(_, _, _)
\* The loop of set_all over the items from the i-th on: the transaction's
\* contents when it ends, and whether _validate_key raised
PutAll(kind, txn, items) ==
    IF items = <<>> THEN [raised |-> FALSE, txn |-> txn]
    ELSE IF ~validate_key(kind, items[1].key) THEN [raised |-> TRUE, txn |-> txn]
    ELSE PutAll(kind, TxnPut(txn, items[1].key, items[1].value), Tail(items))

\* A store of one of the three kinds has been opened on an empty directory
InitDS ==
    /\ ds_kind \in ValidatingStores
    /\ ds_store = NoItems
    /\ ds_last = NoCall
    /\ ENCIdle
    /\ RUNIdle
    /\ RSIdle
    /\ MRIdle
    /\ CLIdle
    /\ HSIdle
    /\ SCIdle
    /\ LCIdle
    /\ DCIdle
    /\ CUIdle
    /\ SWIdle
    /\ SMIdle
    /\ TCIdle
    /\ FVUIdle
    /\ RWIdle
    /\ SRVIdle
    /\ MATIdle

\* DiskDatastore.set: the key is validated, then put in a write transaction
Set(key, value) ==
    /\ IF validate_key(ds_kind, key)
       THEN /\ ds_store' = TxnPut(ds_store, key, value)
            /\ ds_last' = [op |-> "set", keys |-> {key}, result |-> "None"]
       ELSE /\ ds_store' = ds_store
            /\ ds_last' = [op |-> "set", keys |-> {key}, result |-> "ValueError"]
    /\ UNCHANGED ds_kind
    /\ UNCHANGED dsOthers

\* DiskDatastore.delete: the key is validated, then deleted in a write
\* transaction, which raises KeyError when the key is not there
Delete(key) ==
    /\ IF ~validate_key(ds_kind, key)
       THEN /\ ds_store' = ds_store
            /\ ds_last' = [op |-> "delete", keys |-> {key}, result |-> "ValueError"]
       ELSE IF key \notin DOMAIN ds_store
       THEN /\ ds_store' = ds_store
            /\ ds_last' = [op |-> "delete", keys |-> {key}, result |-> "KeyError"]
       ELSE /\ ds_store' = TxnDelete(ds_store, key)
            /\ ds_last' = [op |-> "delete", keys |-> {key}, result |-> "None"]
    /\ UNCHANGED ds_kind
    /\ UNCHANGED dsOthers

\* DiskDatastore.set_all: one write transaction drops the database and puts
\* the items, validating each key; the transaction commits when the block
\* ends and aborts when an exception leaves it
SetAll(items) ==
    /\ LET done == PutAll(ds_kind, NoItems, items)
           keys == {items[i].key : i \in 1..Len(items)}
       IN IF done.raised
          THEN /\ ds_store' = ds_store
               /\ ds_last' = [op |-> "set_all", keys |-> keys, result |-> "ValueError"]
          ELSE /\ ds_store' = done.txn
               /\ ds_last' = [op |-> "set_all", keys |-> keys, result |-> "None"]
    /\ UNCHANGED ds_kind
    /\ UNCHANGED dsOthers

NextDS ==
    \/ \E key \in StoreKeys, value \in StoreValues : Set(key, value)
    \/ \E key \in StoreKeys : Delete(key)
    \/ \E items \in ItemLists : SetAll(items)

SpecDS == InitDS /\ [][NextDS]_vars

\* C19: every key of the LocalVersion, FileVersion and PathRequest stores
\* starts with '/': a set, delete or set_all that involves a key not starting
\* with '/' raises ValueError and leaves the store's contents unchanged.
C19_KeysStartWithSlash ==
    /\ [](\A key \in DOMAIN ds_store : StartsWithSlash(key))
    /\ [][(\E key \in ds_last'.keys : ~StartsWithSlash(key))
            => /\ ds_last'.result = "ValueError"
               /\ ds_store' = ds_store]_vars

\* a set_all with a key that does not start with '/' has raised ValueError
\* on a store that holds items
C19_Witness ==
    /\ ds_last.op = "set_all"
    /\ ds_last.result = "ValueError"
    /\ \E key \in ds_last.keys : StartsWithSlash(key)
    /\ DOMAIN ds_store # {}

----------------------------------------------------------------------------
(* PathRequest.resolve_status over a store with requests at the root, at a *)
(* directory and at a file in it                                           *)

ResolvePaths == {"/", "/a", "/a/b"}

\* A PathRequest store has been filled; nothing has been resolved yet
InitRS ==
    /\ rs_requests \in UNION {[K -> Statuses] : K \in SUBSET ResolvePaths}
    /\ rs_path = ""
    /\ rs_status = ""
    /\ ENCIdle
    /\ RUNIdle
    /\ DSIdle
    /\ MRIdle
    /\ CLIdle
    /\ HSIdle
    /\ SCIdle
    /\ LCIdle
    /\ DCIdle
    /\ CUIdle
    /\ SWIdle
    /\ SMIdle
    /\ TCIdle
    /\ FVUIdle
    /\ RWIdle
    /\ SRVIdle
    /\ MATIdle

\* A caller asks for the status of path
Resolve(path) ==
    /\ rs_path' = path
    /\ rs_status' = resolve_status(rs_requests, path)
    /\ UNCHANGED rs_requests
    /\ UNCHANGED rsOthers

NextRS == \E path \in ResolvePaths : Resolve(path)

SpecRS == InitRS /\ [][NextRS]_vars

RECURSIVE ClosestStatus(_, _)
\* The status stored at path, else that of its closest ancestor that has
\* one, the root included, else on-demand
ClosestStatus(requests, path) ==
    IF path \in DOMAIN requests THEN requests[path]
    ELSE IF path = Parent(path) THEN "on-demand"
    ELSE ClosestStatus(requests, Parent(path))

----------------------------------------------------------------------------
(* FileVersion.most_recent_content over one path's dict of entries         *)

\* The content hashes an entry may have
EntryHashes == Hashes \cup {DELETED_CONTENT_HASH}

\* The dicts a path may hold, as their items in insertion order: each hash
\* at most once, with any mtime
RECURSIVE ItemsOver(_)
ItemsOver(hs) ==
    {<<>>} \cup
    UNION {{<<[content_hash |-> h, mtime |-> m, size |-> EntrySize(h)]>> \o rest :
                m \in 0..MaxMtime, rest \in ItemsOver(hs \ {h})} : h \in hs}

\* sort ascending: the smaller mtime first
SortsBefore_Ascending(a, b) == a.mtime <= b.mtime

\* key=lambda v: v[1]["mtime"], reverse=True: a stays before b, which came
\* after it, when its mtime is not smaller (the sort is stable)
SortsBefore(a, b) == a.mtime >= b.mtime

\* item put behind the last element of sorted that stays before it
InsertSorted(sorted, item) ==
    LET n == Cardinality({i \in 1..Len(sorted) : SortsBefore(sorted[i], item)})
    IN SubSeq(sorted, 1, n) \o <<item>> \o SubSeq(sorted, n + 1, Len(sorted))

RECURSIVE SortCandidates(_)
\* candidates.sort(key=..., reverse=True)
SortCandidates(candidates) ==
    IF candidates = <<>> THEN <<>>
    ELSE InsertSorted(SortCandidates(SubSeq(candidates, 1, Len(candidates) - 1)),
                      candidates[Len(candidates)])

\* FileVersion.most_recent_content(path): candidates[0] of the sorted items;
\* (None, None) on the KeyError of a missing path and the IndexError of an
\* empty dict
MostRecentEntry(store, path) ==
    IF path \notin DOMAIN store THEN [NoResult EXCEPT !.called = TRUE]
    ELSE IF store[path] = <<>> THEN [NoResult EXCEPT !.called = TRUE]
    ELSE LET first == SortCandidates(store[path])[1]
         IN [called |-> TRUE, content_hash |-> first.content_hash,
             mtime |-> first.mtime, size |-> first.size]

\* The store holds path /a with some dict, or no path at all
InitMR ==
    /\ \/ mr_store = <<>>
       \/ \E items \in ItemsOver(EntryHashes) : mr_store = [p \in {"/a"} |-> items]
    /\ mr_path = ""
    /\ mr_result = NoResult
    /\ ENCIdle
    /\ RUNIdle
    /\ DSIdle
    /\ RSIdle
    /\ CLIdle
    /\ HSIdle
    /\ SCIdle
    /\ LCIdle
    /\ DCIdle
    /\ CUIdle
    /\ SWIdle
    /\ SMIdle
    /\ TCIdle
    /\ FVUIdle
    /\ RWIdle
    /\ SRVIdle
    /\ MATIdle

\* A caller asks for the most recent content of path
MostRecentCall(path) ==
    /\ mr_path' = path
    /\ mr_result' = MostRecentEntry(mr_store, path)
    /\ UNCHANGED mr_store
    /\ UNCHANGED mrOthers

NextMR == \E path \in {"/a", "/b"} : MostRecentCall(path)

SpecMR == InitMR /\ [][NextMR]_vars

\* The items of path in store; none when the path is absent
ItemsAt(store, path) == IF path \in DOMAIN store THEN store[path] ELSE <<>>

\* C21: most_recent_content(p) returns an entry of path p whose mtime is
\* greater than or equal to the mtime of every other entry of p, and returns
\* (None, None) when p is absent from the store or has no entries.
C21_MostRecentIsArgmax ==
    mr_result.called =>
        LET items == ItemsAt(mr_store, mr_path)
        IN IF items = <<>>
           THEN mr_result.content_hash = NoHash
           ELSE /\ \E i \in 1..Len(items) :
                      /\ items[i].content_hash = mr_result.content_hash
                      /\ items[i].mtime = mr_result.mtime
                      /\ items[i].size = mr_result.size
                /\ \A i \in 1..Len(items) : items[i].mtime <= mr_result.mtime

\* the call returned the newest of several entries, which is not the first
\* of the dict
C21_Witness ==
    /\ mr_result.called
    /\ Len(ItemsAt(mr_store, mr_path)) >= 2
    /\ ItemsAt(mr_store, mr_path)[1].mtime < mr_result.mtime
    /\ \E i \in 2..Len(ItemsAt(mr_store, mr_path)) :
          ItemsAt(mr_store, mr_path)[i].content_hash = mr_result.content_hash

----------------------------------------------------------------------------
(* The round trip: a whole encrypted object read through                   *)
(* _DecryptingStream.read                                                  *)

MaxReadSize == 3

\* read() and read(-1), and read(size) for some sizes
ReadSizes == {-1} \cup 1..MaxReadSize

RECURSIVE FillBuffer(_, _, _, _)
\* The loop of _DecryptingStream.read: chunks are decrypted into the buffer
\* while the source has not ended and, for a sized read, the buffer is
\* shorter than size
FillBuffer(key, object, d, size) ==
    IF d.status = "reading" /\ (size = -1 \/ Len(d.buffer) < size)
    THEN FillBuffer(key, object, decrypt_chunk(key, object, d), size)
    ELSE d

\* The rest of the buffer is forgotten
BufferAfterRead_Dropped(buffer, size) == <<>>

\* self._buffer = self._buffer[size:], and b"" after read(-1)
BufferAfterRead(buffer, size) ==
    IF size = -1 THEN <<>> ELSE SubSeq(buffer, size + 1, Len(buffer))

\* result = self._buffer[:size], and the whole buffer for read(-1)
ReadResult(buffer, size) ==
    IF size = -1 THEN buffer ELSE SubSeq(buffer, 1, Min(size, Len(buffer)))

\* An object encrypted from some plaintext under some key is stored whole; a
\* reader opens it with the same key
InitRT ==
    /\ enc_key \in Keys
    /\ enc_plain \in Plaintexts
    /\ enc_object = encrypt_file(enc_key, enc_plain)
    /\ dec = OpenStream
    /\ RUNIdle
    /\ DSIdle
    /\ RSIdle
    /\ MRIdle
    /\ CLIdle
    /\ HSIdle
    /\ SCIdle
    /\ LCIdle
    /\ DCIdle
    /\ CUIdle
    /\ SWIdle
    /\ SMIdle
    /\ TCIdle
    /\ FVUIdle
    /\ RWIdle
    /\ SRVIdle
    /\ MATIdle

\* _DecryptingStream.read(size), called by a reader that appends what it
\* gets and stops at the first empty result, or after read(-1); an
\* exception ends the reading
StreamRead(size) ==
    /\ ~dec.ended
    /\ dec.status \in {"reading", "eof"}
    /\ LET d == FillBuffer(enc_key, enc_object, dec, size)
       IN IF d.status \notin {"reading", "eof"}
          THEN dec' = [d EXCEPT !.ended = TRUE]
          ELSE dec' = [d EXCEPT !.buffer = BufferAfterRead(d.buffer, size),
                                !.out = d.out \o ReadResult(d.buffer, size),
                                !.ended = (size = -1 \/ ReadResult(d.buffer, size) = <<>>)]
    /\ UNCHANGED <<enc_key, enc_plain, enc_object>>
    /\ UNCHANGED encOthers

NextRT == \E size \in ReadSizes : StreamRead(size)

SpecRT == InitRT /\ [][NextRT]_vars

\* C22: for every plaintext p and key k, decrypting the chunked encryption
\* of p under k yields exactly p, for every length of p (empty, shorter than
\* a chunk, one chunk, several chunks and a partial one) and every read size
\* of the reader: when the reading has ended, what was read is p.
C22_RoundTrip ==
    dec.ended => /\ dec.out = enc_plain
                 /\ dec.status = "eof"

\* a plaintext of two chunks and a partial one has been read to its end
C22_Witness ==
    /\ dec.ended
    /\ Len(enc_plain) > 2 * ChunkSize
    /\ Len(enc_plain) % ChunkSize # 0
    /\ dec.out = enc_plain

----------------------------------------------------------------------------
(* RcloneS3Backend.close, called explicitly, by the atexit handler         *)
(* _cleanup_all_instances and by __del__, from any thread                  *)

\* How many times one thread calls close()
MaxCloses == 2

\* __init__ has returned: the child runs, the temporary config file is on
\* disk and the instance is in _active_instances
InitCL ==
    /\ cl_inst = [closed |-> FALSE, lock |-> 0, process |-> TRUE, terminated |-> 0,
                  killed |-> 0, config |-> TRUE, active |-> TRUE]
    /\ cl_pc = [t \in Threads |-> "idle"]
    /\ cl_calls = [t \in Threads |-> 0]
    /\ ENCIdle
    /\ RUNIdle
    /\ DSIdle
    /\ RSIdle
    /\ MRIdle
    /\ HSIdle
    /\ SCIdle
    /\ LCIdle
    /\ DCIdle
    /\ CUIdle
    /\ SWIdle
    /\ SMIdle
    /\ TCIdle
    /\ FVUIdle
    /\ RWIdle
    /\ SRVIdle
    /\ MATIdle

\* The lock is taken whoever holds it
LockFree_Ignored(holder) == TRUE

\* with self._lock: the lock can be taken when nobody holds it
LockFree(holder) == holder = 0

\* close() is called (by a caller, by __del__ or by the atexit sweep) and
\* reaches "with self._lock"
CloseCall(t) ==
    /\ cl_pc[t] = "idle"
    /\ cl_calls[t] < MaxCloses
    /\ cl_pc' = [cl_pc EXCEPT ![t] = "lock"]
    /\ UNCHANGED <<cl_inst, cl_calls>>
    /\ UNCHANGED clOthers

\* with self._lock: the thread blocks until the lock is free and takes it
CloseAcquire(t) ==
    /\ cl_pc[t] = "lock"
    /\ LockFree(cl_inst.lock)
    /\ cl_inst' = [cl_inst EXCEPT !.lock = t]
    /\ cl_pc' = [cl_pc EXCEPT ![t] = "check"]
    /\ UNCHANGED cl_calls
    /\ UNCHANGED clOthers

\* if self._closed: return (the lock is released on the way out)
CloseCheck(t) ==
    /\ cl_pc[t] = "check"
    /\ IF cl_inst.closed
       THEN /\ cl_inst' = [cl_inst EXCEPT !.lock = IF @ = t THEN 0 ELSE @]
            /\ cl_pc' = [cl_pc EXCEPT ![t] = "idle"]
            /\ cl_calls' = [cl_calls EXCEPT ![t] = @ + 1]
       ELSE /\ cl_pc' = [cl_pc EXCEPT ![t] = "set"]
            /\ UNCHANGED <<cl_inst, cl_calls>>
    /\ UNCHANGED clOthers

\* self._closed = True
CloseSet(t) ==
    /\ cl_pc[t] = "set"
    /\ cl_inst' = [cl_inst EXCEPT !.closed = TRUE]
    /\ cl_pc' = [cl_pc EXCEPT ![t] = "stop"]
    /\ UNCHANGED cl_calls
    /\ UNCHANGED clOthers

\* _stop_rclone_server: nothing when _process is None, else terminate()
CloseTerminate(t) ==
    /\ cl_pc[t] = "stop"
    /\ cl_inst' = [cl_inst EXCEPT !.terminated = IF cl_inst.process THEN @ + 1 ELSE @]
    /\ cl_pc' = [cl_pc EXCEPT ![t] = IF cl_inst.process THEN "wait" ELSE "config"]
    /\ UNCHANGED cl_calls
    /\ UNCHANGED clOthers

\* wait(timeout=5.0): the child exits in time, or TimeoutExpired is raised
CloseWait(t, expired) ==
    /\ cl_pc[t] = "wait"
    /\ cl_pc' = [cl_pc EXCEPT ![t] = IF expired THEN "kill" ELSE "clear"]
    /\ UNCHANGED <<cl_inst, cl_calls>>
    /\ UNCHANGED clOthers

\* except subprocess.TimeoutExpired: kill() and wait()
CloseKill(t) ==
    /\ cl_pc[t] = "kill"
    /\ cl_inst' = [cl_inst EXCEPT !.killed = @ + 1]
    /\ cl_pc' = [cl_pc EXCEPT ![t] = "clear"]
    /\ UNCHANGED cl_calls
    /\ UNCHANGED clOthers

\* finally: self._process = None
CloseClearProcess(t) ==
    /\ cl_pc[t] = "clear"
    /\ cl_inst' = [cl_inst EXCEPT !.process = FALSE]
    /\ cl_pc' = [cl_pc EXCEPT ![t] = "config"]
    /\ UNCHANGED cl_calls
    /\ UNCHANGED clOthers

\* _cleanup_config_file: the file is unlinked when it is there
CloseCleanupConfig(t) ==
    /\ cl_pc[t] = "config"
    /\ cl_inst' = [cl_inst EXCEPT !.config = FALSE]
    /\ cl_pc' = [cl_pc EXCEPT ![t] = "discard"]
    /\ UNCHANGED cl_calls
    /\ UNCHANGED clOthers

\* _active_instances.discard(self); the with block ends and close() returns
CloseDiscard(t) ==
    /\ cl_pc[t] = "discard"
    /\ cl_inst' = [cl_inst EXCEPT !.active = FALSE, !.lock = IF @ = t THEN 0 ELSE @]
    /\ cl_pc' = [cl_pc EXCEPT ![t] = "idle"]
    /\ cl_calls' = [cl_calls EXCEPT ![t] = @ + 1]
    /\ UNCHANGED clOthers

NextCL ==
    \E t \in Threads :
        \/ CloseCall(t) \/ CloseAcquire(t) \/ CloseCheck(t) \/ CloseSet(t)
        \/ CloseTerminate(t) \/ (\E expired \in BOOLEAN : CloseWait(t, expired))
        \/ CloseKill(t) \/ CloseClearProcess(t) \/ CloseCleanupConfig(t)
        \/ CloseDiscard(t)

SpecCL == InitCL /\ [][NextCL]_vars

-----------------------------------------------------------------------------
\* SpecFVR: one file_version_upload call on S3 while other clients of the same
\* bucket keep writing the metadata object.

\* The thread whose call is followed: the first one
Uploader == CHOOSE t \in Threads : \A u \in Threads : t <= u

\* The bodies other clients leave in the object
OtherBodies == {o.db : o \in {x \in FVInitialObjects : x.state = "data"}}

InitFVR ==
    /\ fvKind = "s3"
    /\ fvObj \in FVInitialObjects
    /\ fvInitial = FileVersionDownload(fvObj)
    /\ fvInitialState = fvObj.state
    /\ fvInput \in [Threads -> UNION {FVInputs(t) : t \in Threads}]
    /\ fvInput[Uploader] \in FVInputs(Uploader)
    /\ \A t \in Threads \ {Uploader} : fvInput[t] = SingleEntry("/a", "h1", t)
    /\ fvPc = [t \in Threads |-> "idle"]
    /\ fvExisting = [t \in Threads |-> EmptyDB]
    /\ fvVersion = [t \in Threads |-> NoVersion]
    /\ fvAttempt = [t \in Threads |-> 0]
    /\ fvLock = 0
    /\ RWIdle
    /\ SRVIdle
    /\ MATIdle
    /\ LIBIdle

\* Another client's put_object replaces the body by a different one, so the
\* ETag changes
OtherUpload(db) ==
    /\ IF fvObj.state = "data" THEN fvObj.db # db ELSE TRUE
    /\ fvObj' = [state |-> "data", db |-> db]
    /\ UNCHANGED fvOthers
    /\ UNCHANGED <<fvKind, fvInitial, fvInitialState, fvInput, fvPc, fvExisting, fvVersion,
                   fvAttempt, fvLock>>

UploaderStep ==
    \/ S3Call(Uploader) \/ S3Exists(Uploader) \/ S3Read(Uploader)
    \/ S3Head(Uploader) \/ S3Put(Uploader)

NextFVR ==
    \/ S3Call(Uploader) \/ S3Exists(Uploader) \/ S3Read(Uploader)
    \/ S3Head(Uploader) \/ S3Put(Uploader)
    \/ \E db \in OtherBodies : OtherUpload(db)

SpecFVR == InitFVR /\ [][NextFVR]_vars

\* The thread of the call is scheduled; the other clients need not be
FairSpecFVR == SpecFVR /\ WF_vars(UploaderStep)

\* The call is over: it returned or it raised
UploadEnded == fvPc[Uploader] \in {"done", "failed"}

\* C25: file_version_upload always terminates: it makes at most 100
\* read-merge-write attempts, returns after the first attempt whose versioned
\* write succeeds, and raises an error when all 100 attempts failed with
\* VersionError; no VersionError escapes before the retry budget is exhausted.
C25_UploadTerminates ==
    /\ <>UploadEnded
    /\ [](/\ fvAttempt[Uploader] <= RetryLimit
          /\ fvPc[Uploader] = "failed" <=> fvAttempt[Uploader] = RetryLimit
          /\ fvPc[Uploader] = "done" => fvAttempt[Uploader] < RetryLimit)
    /\ [][fvPc[Uploader] = "put" /\ fvPc'[Uploader] # "put"
            => fvPc'[Uploader] = "done" /\ fvObj'.db = fvExisting[Uploader]]_vars

\* the call raised after RetryLimit version conflicts
C25_Witness == fvPc[Uploader] = "failed" /\ fvAttempt[Uploader] = RetryLimit

-----------------------------------------------------------------------------
\* More properties of the materializer (SpecMAT)

\* The LocalVersion of p is one with content_hash None
NullHashVersion(c, p) ==
    /\ local_versions[c][p].exists
    /\ local_versions[c][p].content_hash = NoHash

\* C26: when the materializer creates a file, the rename of the temporary file
\* onto the target path happens before the LocalVersion of the path is
\* inserted: in no state, and so for no other operator, is there a
\* materializer-inserted LocalVersion (content_hash None) whose file is not at
\* its path.
C26_FileInPlaceBeforeLocalVersion ==
    \A c \in Materializers, p \in Paths :
        NullHashVersion(c, p) => disk[c][p].exists

-----------------------------------------------------------------------------
\* SpecHSH: LocalHasherOperator over a checkout with several paths.  The
\* files and the LocalVersions the step finds are drawn by Init; nothing else
\* touches them while the hasher runs.

\* The paths of the checkout in the key order of the LMDB cursor
HasherPathSeq == <<"/a", "/b">>

HasherPaths == {HasherPathSeq[i] : i \in 1..Len(HasherPathSeq)}

\* What a path can hold when a step starts
HasherFiles == {NoFile, FileOf("x", 0), FileOf("y", 1)}

\* The LocalVersions a path can have when a step starts: none, one the scanner
\* wrote (content_hash None), one an earlier step hashed
HasherVersions ==
    {NoLocalVersion, LocalVersionOf(NoHash, 0, 0, -1),
     LocalVersionOf(Sha256("x"), 0, SizeOf("x"), 0)}

\* int(time.time()) of the run's steps
HashTime == 1

InitHSH ==
    /\ hs_disk \in [HasherPaths -> HasherFiles]
    /\ hs_local_versions \in [HasherPaths -> HasherVersions]
    /\ hs_step = IdleHashStep
    /\ ENCIdle
    /\ RUNIdle
    /\ DSIdle
    /\ RSIdle
    /\ MRIdle
    /\ CLIdle
    /\ SCIdle
    /\ LCIdle
    /\ DCIdle
    /\ CUIdle
    /\ SWIdle
    /\ SMIdle
    /\ TCIdle
    /\ FVUIdle
    /\ RWIdle
    /\ SRVIdle
    /\ MATIdle

\* LocalVersion.without_content_hashes: the paths whose content_hash is None,
\* in the order of the cursor
without_content_hashes(lvs) ==
    SelectSeq(HasherPathSeq,
              LAMBDA q : lvs[q].exists /\ lvs[q].content_hash = NoHash)

\* BaseOperator.run calls step(); hashed = 0 and the iteration starts
HashStepBegin ==
    /\ hs_step.pc = "sleeping"
    /\ hs_step' = [pc |-> "iterating",
                   todo |-> without_content_hashes(hs_local_versions),
                   hashed |-> 0, last |-> hs_step.last]
    /\ UNCHANGED <<hs_disk, hs_local_versions>>
    /\ UNCHANGED hsOthers

\* One round of the loop on a file that is there: open, sha256 of the whole
\* file, os.stat, and the store of hash, size, int(mtime), last_hashed
HashPath ==
    /\ hs_step.pc = "iterating"
    /\ hs_step.todo # <<>>
    /\ hs_disk[Head(hs_step.todo)].exists
    /\ LET p == Head(hs_step.todo)
       IN  hs_local_versions' = [hs_local_versions EXCEPT ![p] =
                LocalVersionOf(Sha256(hs_disk[p].body), hs_disk[p].mtime,
                               SizeOf(hs_disk[p].body), HashTime)]
    /\ hs_step' = [hs_step EXCEPT !.todo = Tail(@), !.hashed = @ + 1]
    /\ UNCHANGED hs_disk
    /\ UNCHANGED hsOthers

\* One round of the loop on a path without a file: open() raises
\* FileNotFoundError, which leaves step(); run() logs it and sleeps
HashRaise ==
    /\ hs_step.pc = "iterating"
    /\ hs_step.todo # <<>>
    /\ ~hs_disk[Head(hs_step.todo)].exists
    /\ hs_step' = [pc |-> "sleeping", todo |-> <<>>, hashed |-> hs_step.hashed,
                   last |-> "raised"]
    /\ UNCHANGED <<hs_disk, hs_local_versions>>
    /\ UNCHANGED hsOthers

\* The iterator is used up: return bool(hashed)
HashStepReturn ==
    /\ hs_step.pc = "iterating"
    /\ hs_step.todo = <<>>
    /\ hs_step' = [pc |-> "sleeping", todo |-> <<>>, hashed |-> hs_step.hashed,
                   last |-> IF hs_step.hashed > 0 THEN "active" ELSE "inactive"]
    /\ UNCHANGED <<hs_disk, hs_local_versions>>
    /\ UNCHANGED hsOthers

NextHSH == HashStepBegin \/ HashPath \/ HashRaise \/ HashStepReturn

SpecHSH == InitHSH /\ [][NextHSH]_vars

\* The hasher's thread is scheduled
FairSpecHSH == SpecHSH /\ WF_vars(NextHSH)

\* The LocalVersion of p has no hash, and the file of p is there
AwaitsHash(p) ==
    /\ hs_local_versions[p].exists
    /\ hs_local_versions[p].content_hash = NoHash
    /\ hs_disk[p].exists

\* The LocalVersion of p carries the hash, size and mtime of the file, and a
\* last_hashed time
HashedFromFile(p) ==
    /\ hs_local_versions[p].exists
    /\ hs_local_versions[p].content_hash = Sha256(hs_disk[p].body)
    /\ hs_local_versions[p].size = SizeOf(hs_disk[p].body)
    /\ hs_local_versions[p].mtime = hs_disk[p].mtime
    /\ hs_local_versions[p].last_hashed = HashTime

\* C27: every LocalVersion whose content_hash is None and whose file is on
\* disk eventually gets the SHA-256 of the file as content_hash, with
\* refreshed size, mtime and last_hashed, whatever other LocalVersions exist
\* (null-hash entries whose file is missing included).
C27_NullHashEventuallyHashed ==
    \A p \in HasherPaths : AwaitsHash(p) ~> HashedFromFile(p)

-----------------------------------------------------------------------------
\* SpecSCN: LocalScannerOperator over a checkout with several paths.  The
\* files, the LocalVersions, the PathRequests and the FileVersions the step
\* finds are drawn by Init.

ScannerPaths == {"/a", "/b"}

\* st_mtime is kept in ticks of a fraction of a second, so that int() has
\* something to cut
TicksPerSecond == 2

\* int(stat_result.st_mtime)
IntSeconds(st_mtime) == st_mtime \div TicksPerSecond

\* What a path can hold when a step starts: nothing, or a file last modified
\* at tick 0, 1 or 2 (0.0, 0.5 and 1.0 seconds at two ticks a second)
ScannerFiles == {NoFile, FileOf("x", 0), FileOf("y", 1), FileOf("y", 2)}

\* The LocalVersions a path can have when a step starts: none, or one with
\* mtime 0 or 1, hashed or not
ScannerVersions ==
    {NoLocalVersion, LocalVersionOf(NoHash, 0, SizeOf("x"), -1),
     LocalVersionOf(Sha256("x"), 0, SizeOf("x"), 0),
     LocalVersionOf(Sha256("y"), 1, SizeOf("y"), 1)}

\* The PathRequest stores of the checkout
ScannerRequests ==
    {NoRequests, [p \in {"/a"} |-> "full"], [p \in {"/a"} |-> "ignore"],
     [p \in ScannerPaths |-> "full"]}

InitSCN ==
    /\ sc_disk \in [ScannerPaths -> ScannerFiles]
    /\ sc_local_versions \in [ScannerPaths -> ScannerVersions]
    /\ sc_path_requests \in ScannerRequests
    /\ sc_file_versions \in {EmptyDB, SingleEntry("/a", Sha256("x"), 0)}
    /\ sc_step = IdleScanStep
    /\ ENCIdle
    /\ RUNIdle
    /\ DSIdle
    /\ RSIdle
    /\ MRIdle
    /\ CLIdle
    /\ HSIdle
    /\ LCIdle
    /\ DCIdle
    /\ CUIdle
    /\ SWIdle
    /\ SMIdle
    /\ TCIdle
    /\ FVUIdle
    /\ RWIdle
    /\ SRVIdle
    /\ MATIdle

\* A walk that rewrites the entry when the mtimes are equal as well
ScanWrites_OrEqual(local_version_data, new_mtime) ==
    IF local_version_data.exists THEN local_version_data.mtime <= new_mtime ELSE TRUE

\* local_version_data is None or local_version_data["mtime"] <
\* new_version_data["mtime"]
ScanWrites(local_version_data, new_mtime) ==
    IF local_version_data.exists THEN local_version_data.mtime < new_mtime ELSE TRUE

\* new_version_data: content_hash None, int(st_mtime), st_size (the dict has
\* no last_hashed key)
new_version_data(file) ==
    LocalVersionOf(NoHash, IntSeconds(file.mtime), SizeOf(file.body), -1)

\* The walk over the files of the root: each file is stat'ed, added to seen,
\* and its LocalVersion is written when ScanWrites says so
ScanWalk ==
    /\ sc_step.pc = "sleeping"
    /\ LET found == {p \in ScannerPaths : sc_disk[p].exists}
           written == {p \in found :
                          ScanWrites(sc_local_versions[p], IntSeconds(sc_disk[p].mtime))}
       IN  /\ sc_local_versions' = [p \in ScannerPaths |->
                    IF p \in written THEN new_version_data(sc_disk[p])
                    ELSE sc_local_versions[p]]
           /\ sc_step' = [pc |-> "walked", seen |-> found, written |-> written, raced |-> {},
                          last |-> sc_step.last]
    /\ UNCHANGED <<sc_disk, sc_path_requests, sc_file_versions>>
    /\ UNCHANGED scOthers

\* set(self.config.local_versions.keys()) - seen
ScanDeletedPaths == {p \in ScannerPaths : sc_local_versions[p].exists} \ sc_step.seen

\* The loop over deleted_paths only counts and logs, whatever resolve_status
\* says; the step returns new > 0 or deleted > 0.  (The log line reads
\* firmament_path, the path of the last file of the walk.)
ScanDeletedReturn ==
    /\ sc_step.pc = "walked"
    /\ IF ScanDeletedPaths # {} THEN sc_step.seen # {} ELSE TRUE
    /\ sc_step' = [pc |-> "sleeping", seen |-> sc_step.seen, written |-> sc_step.written,
                   raced |-> sc_step.raced,
                   last |-> IF sc_step.written # {} THEN "active"
                            ELSE IF ScanDeletedPaths # {} THEN "active"
                            ELSE "inactive"]
    /\ UNCHANGED <<sc_disk, sc_local_versions, sc_path_requests, sc_file_versions>>
    /\ UNCHANGED scOthers

\* The walk found no file, so firmament_path was never bound: the log line of
\* the first deleted path raises UnboundLocalError, which leaves step()
ScanDeletedRaise ==
    /\ sc_step.pc = "walked"
    /\ ScanDeletedPaths # {}
    /\ sc_step.seen = {}
    /\ sc_step' = [pc |-> "sleeping", seen |-> sc_step.seen, written |-> sc_step.written,
                   raced |-> sc_step.raced,
                   last |-> "raised"]
    /\ UNCHANGED <<sc_disk, sc_local_versions, sc_path_requests, sc_file_versions>>
    /\ UNCHANGED scOthers

NextSCN == ScanWalk \/ ScanDeletedReturn \/ ScanDeletedRaise

SpecSCN == InitSCN /\ [][NextSCN]_vars

\* The file of p is gone, its LocalVersion is there, and the policy of p does
\* not resolve to full
DeletedNotFull(p) ==
    /\ ~sc_disk[p].exists
    /\ sc_local_versions[p].exists
    /\ resolve_status(sc_path_requests, p) # "full"

\* C28: when a file that has a LocalVersion disappears from disk and the
\* policy of its path does not resolve to full, the scanner step removes that
\* LocalVersion and leaves the FileVersion store unchanged: a scanner that is
\* between two steps, having made one, has left no such LocalVersion.
C28_ForgottenWithoutPropagation ==
    (sc_step.pc = "sleeping" /\ sc_step.last # "")
        => \A p \in ScannerPaths : ~DeletedNotFull(p)

\* The scanner step returns (it does not raise)
ScanReturns ==
    /\ sc_step.pc = "walked"
    /\ sc_step'.pc = "sleeping"
    /\ sc_step'.last # "raised"

\* C35: an operator's step returns true if and only if it changed state in
\* that step; once the disk and the datastores have stopped changing every
\* step returns false.  For the scanner: the step returns true exactly when
\* its walk wrote a LocalVersion (it changes nothing else).
C35_StepReturnsTrueIffChanged ==
    [][ScanReturns => (sc_step'.last = "active" <=> sc_step.written # {})]_vars

\* The walk of a step has just been made
WalkStep == sc_step.pc = "sleeping" /\ sc_step'.pc = "walked"

\* C29: a scanner step writes a LocalVersion for a file found on disk exactly
\* when the path has no LocalVersion or the on-disk mtime, in whole seconds, is
\* greater than the stored mtime, and the write sets content_hash to None; the
\* LocalVersion of every other file found on disk, content_hash included, is
\* left as it was.
C29_ScannerUpsert ==
    [][WalkStep =>
        \A p \in ScannerPaths :
            sc_disk[p].exists =>
                IF \/ ~sc_local_versions[p].exists
                   \/ sc_disk[p].mtime \div TicksPerSecond > sc_local_versions[p].mtime
                THEN /\ p \in sc_step'.written
                     /\ sc_local_versions'[p].exists
                     /\ sc_local_versions'[p].content_hash = NoHash
                     /\ sc_local_versions'[p].mtime = sc_disk[p].mtime \div TicksPerSecond
                     /\ sc_local_versions'[p].size = SizeOf(sc_disk[p].body)
                ELSE /\ p \notin sc_step'.written
                     /\ sc_local_versions'[p] = sc_local_versions[p]]_vars

\* a step has walked over two files: one was written, the other, hashed before
\* and not modified since, was not
C29_Witness ==
    /\ sc_step.pc = "walked"
    /\ \E p, q \in ScannerPaths :
          /\ p \in sc_step.written
          /\ q \in sc_step.seen \ sc_step.written
          /\ sc_local_versions[q].content_hash # NoHash

-----------------------------------------------------------------------------
\* SpecLC: the counting of LocalCreateOperator.step.  A step finds some number
\* of paths that have FileVersions and no LocalVersion; each of them is either
\* passed over (status, tombstone, content on no backend) or created.

\* max_per_loop = 20
max_per_loop == 20

\* The largest number of paths without a LocalVersion a step finds
MaxPotential == 23

InitLC ==
    /\ lc_step = IdleCreateStep
    /\ ENCIdle
    /\ RUNIdle
    /\ DSIdle
    /\ RSIdle
    /\ MRIdle
    /\ CLIdle
    /\ HSIdle
    /\ SCIdle
    /\ DCIdle
    /\ CUIdle
    /\ SWIdle
    /\ SMIdle
    /\ TCIdle
    /\ FVUIdle
    /\ RWIdle
    /\ SRVIdle
    /\ MATIdle

\* created = 0; the deletion pass has removed `deleted` files; potential_paths
\* has n members
CreateStepBegin(n, deleted) ==
    /\ lc_step.pc = "sleeping"
    /\ lc_step' = [pc |-> "looping", left |-> n, created |-> 0, deleted |-> deleted,
                   last |-> lc_step.last]
    /\ UNCHANGED lcOthers

\* if created > self.max_per_loop
LoopBreaks(created) == created > max_per_loop

\* break: the rest of potential_paths is left for the next step
CreateBreak ==
    /\ lc_step.pc = "looping"
    /\ lc_step.left > 0
    /\ LoopBreaks(lc_step.created)
    /\ lc_step' = [lc_step EXCEPT !.pc = "returning"]
    /\ UNCHANGED lcOthers

\* continue: the path is on-demand or ignore, has no entry, is a tombstone, or
\* its content is on no backend
CreateSkip ==
    /\ lc_step.pc = "looping"
    /\ lc_step.left > 0
    /\ ~LoopBreaks(lc_step.created)
    /\ lc_step' = [lc_step EXCEPT !.left = @ - 1]
    /\ UNCHANGED lcOthers

\* The download, the LocalVersion, the rename, and created += 1
CreateFile ==
    /\ lc_step.pc = "looping"
    /\ lc_step.left > 0
    /\ ~LoopBreaks(lc_step.created)
    /\ lc_step' = [lc_step EXCEPT !.left = @ - 1, !.created = @ + 1]
    /\ UNCHANGED lcOthers

\* The loop has gone through potential_paths
CreateLoopEnd ==
    /\ lc_step.pc = "looping"
    /\ lc_step.left = 0
    /\ lc_step' = [lc_step EXCEPT !.pc = "returning"]
    /\ UNCHANGED lcOthers

\* return created > 0 or deleted > 0
CreateStepReturn ==
    /\ lc_step.pc = "returning"
    /\ lc_step' = [lc_step EXCEPT
                      !.pc = "sleeping",
                      !.last = IF lc_step.created > 0 THEN "active"
                               ELSE IF lc_step.deleted > 0 THEN "active"
                               ELSE "inactive"]
    /\ UNCHANGED lcOthers

NextLC ==
    \/ \E n \in 0..MaxPotential, deleted \in 0..1 : CreateStepBegin(n, deleted)
    \/ CreateBreak
    \/ CreateSkip
    \/ CreateFile
    \/ CreateLoopEnd
    \/ CreateStepReturn

SpecLC == InitLC /\ [][NextLC]_vars

\* C30: in a single materializer step at most max_per_loop (default 20) files
\* are created.
C30_AtMostMaxPerLoop == lc_step.created <= max_per_loop

-----------------------------------------------------------------------------
\* SpecDOC: DownloadOnceCleanupOperator beside the materializer, on one
\* checkout whose FileVersion store has stopped changing and whose bodies are
\* all on a backend.

\* The paths that may have FileVersions
CleanupPaths == {"/a", "/a/b", "/ab"}

\* The paths a PathRequest may be set on, in the key order of the LMDB cursor
CleanupRequestSeq == <<"/", "/a", "/a/b">>

CleanupRequestKeys == {CleanupRequestSeq[i] : i \in 1..Len(CleanupRequestSeq)}

\* The characters of a path
Chars(path) ==
    CASE path = "/" -> <<"/">>
      [] path = "/a" -> <<"/", "a">>
      [] path = "/a/b" -> <<"/", "a", "/", "b">>
      [] path = "/ab" -> <<"/", "a", "b">>

\* str.startswith
startswith(str, prefix) ==
    IF Len(prefix) <= Len(str) THEN SubSeq(str, 1, Len(prefix)) = prefix ELSE FALSE

\* file_path == path or file_path.startswith(path + "/")
MatchesRequest(file_path, path) ==
    IF file_path = path THEN TRUE
    ELSE startswith(Chars(file_path), Chars(path) \o <<"/">>)

\* all_downloaded: no matching key of file_versions is missing from
\* local_versions
all_downloaded(path) ==
    \A file_path \in DOMAIN dc_file_versions :
        MatchesRequest(file_path, path) => file_path \in dc_local_versions

\* What a path's FileVersions can be: none, one body, or a tombstone
CleanupEntries ==
    {EmptyDB} \cup
    UNION {{SingleEntry(p, Sha256("x"), 0), SingleEntry(p, DELETED_CONTENT_HASH, 0)} :
              p \in CleanupPaths}

InitDOC ==
    /\ \E fa, fb, fc \in CleanupEntries :
          /\ DOMAIN fa \subseteq {"/a"}
          /\ DOMAIN fb \subseteq {"/a/b"}
          /\ DOMAIN fc \subseteq {"/ab"}
          /\ dc_file_versions = MergeFileVersions(MergeFileVersions(fa, fb), fc)
    /\ dc_local_versions \in SUBSET CleanupPaths
    /\ dc_path_requests \in
          UNION {[K -> {"download-once", "ignore"}] : K \in SUBSET CleanupRequestKeys}
    /\ dc_step = IdleCleanupStep
    /\ ENCIdle
    /\ RUNIdle
    /\ DSIdle
    /\ RSIdle
    /\ MRIdle
    /\ CLIdle
    /\ HSIdle
    /\ SCIdle
    /\ LCIdle
    /\ CUIdle
    /\ SWIdle
    /\ SMIdle
    /\ TCIdle
    /\ FVUIdle
    /\ RWIdle
    /\ SRVIdle
    /\ MATIdle

\* step() starts: cleaned = 0 and the cursor of path_requests.items() opens
CleanupBegin ==
    /\ dc_step.pc = "sleeping"
    /\ dc_step' = [pc |-> "checking",
                   todo |-> SelectSeq(CleanupRequestSeq,
                                      LAMBDA k : k \in DOMAIN dc_path_requests),
                   cleaned |-> 0, last |-> dc_step.last]
    /\ UNCHANGED <<dc_path_requests, dc_file_versions, dc_local_versions>>
    /\ UNCHANGED dcOthers

\* One round of the loop up to "if all_downloaded": a request of another type
\* is passed over, and so is a download-once request with a matching
\* FileVersion path that has no LocalVersion
CleanupCheck ==
    /\ dc_step.pc = "checking"
    /\ dc_step.todo # <<>>
    /\ LET path == Head(dc_step.todo)
       IN  dc_step' =
             IF dc_path_requests[path] # "download-once"
             THEN [dc_step EXCEPT !.todo = Tail(@)]
             ELSE IF all_downloaded(path)
                  THEN [dc_step EXCEPT !.pc = "deleting"]
                  ELSE [dc_step EXCEPT !.todo = Tail(@)]
    /\ UNCHANGED <<dc_path_requests, dc_file_versions, dc_local_versions>>
    /\ UNCHANGED dcOthers

\* del self.config.path_requests[path]; cleaned += 1
CleanupDelete ==
    /\ dc_step.pc = "deleting"
    /\ LET path == Head(dc_step.todo)
       IN  dc_path_requests' =
             [k \in DOMAIN dc_path_requests \ {path} |-> dc_path_requests[k]]
    /\ dc_step' = [dc_step EXCEPT !.pc = "checking", !.todo = Tail(@),
                                  !.cleaned = @ + 1]
    /\ UNCHANGED <<dc_file_versions, dc_local_versions>>
    /\ UNCHANGED dcOthers

\* return cleaned > 0
CleanupReturn ==
    /\ dc_step.pc = "checking"
    /\ dc_step.todo = <<>>
    /\ dc_step' = [pc |-> "sleeping", todo |-> <<>>, cleaned |-> dc_step.cleaned,
                   last |-> IF dc_step.cleaned > 0 THEN "active" ELSE "inactive"]
    /\ UNCHANGED <<dc_path_requests, dc_file_versions, dc_local_versions>>
    /\ UNCHANGED dcOthers

\* LocalCreateOperator.step, download pass for one path: a path with
\* FileVersions and no LocalVersion whose status is neither on-demand nor
\* ignore and whose most recent entry is a body gets its file and its
\* LocalVersion
CleanupMaterializerCreate(p) ==
    /\ p \in DOMAIN dc_file_versions
    /\ p \notin dc_local_versions
    /\ resolve_status(dc_path_requests, p) \notin SkippedStatuses
    /\ \E h \in most_recent_content(dc_file_versions, p) : h # DELETED_CONTENT_HASH
    /\ dc_local_versions' = dc_local_versions \cup {p}
    /\ UNCHANGED <<dc_path_requests, dc_file_versions, dc_step>>
    /\ UNCHANGED dcOthers

\* LocalCreateOperator.step, deletion pass for one path: a tombstoned path
\* loses its file and its LocalVersion
CleanupMaterializerDelete(p) ==
    /\ p \in deleted_paths(dc_file_versions)
    /\ p \in dc_local_versions
    /\ dc_local_versions' = dc_local_versions \ {p}
    /\ UNCHANGED <<dc_path_requests, dc_file_versions, dc_step>>
    /\ UNCHANGED dcOthers

NextDOC ==
    \/ CleanupBegin
    \/ CleanupCheck
    \/ CleanupDelete
    \/ CleanupReturn
    \/ \E p \in CleanupPaths : CleanupMaterializerCreate(p)
    \/ \E p \in CleanupPaths : CleanupMaterializerDelete(p)

SpecDOC == InitDOC /\ [][NextDOC]_vars

\* The cleanup thread and the materializer thread keep running
FairSpecDOC ==
    /\ SpecDOC
    /\ WF_vars(CleanupBegin \/ CleanupCheck \/ CleanupDelete \/ CleanupReturn)
    /\ WF_vars(\E p \in CleanupPaths : CleanupMaterializerCreate(p))
    /\ WF_vars(\E p \in CleanupPaths : CleanupMaterializerDelete(p))

\* file_path is the request's path or lies beneath it in the tree
AtOrBeneath(file_path, path) ==
    \/ file_path = path
    \/ Parent(file_path) = path
    \/ Parent(Parent(file_path)) = path

\* C31: the cleanup operator deletes a PathRequest only if its value is
\* download-once and, at the moment of the deletion, every FileVersion path
\* equal to or beneath the request's path has a LocalVersion; requests of any
\* other type are never deleted by it.
C31_DeletesOnlyWhenAllMaterialized ==
    [][\A k \in DOMAIN dc_path_requests :
          k \notin DOMAIN dc_path_requests'
              => /\ dc_path_requests[k] = "download-once"
                 /\ \A p \in DOMAIN dc_file_versions :
                       AtOrBeneath(p, k) => p \in dc_local_versions]_vars

\* C32: no download-once PathRequest is retained forever: with the
\* FileVersions under its prefix unchanging and their bodies on a backend, the
\* materializer and the cleanup operator reach a state in which the request
\* has been removed, and it stays removed.
C32_DownloadOnceNotRetained ==
    <>[](\A k \in DOMAIN dc_path_requests : dc_path_requests[k] # "download-once")

-----------------------------------------------------------------------------
\* SpecCU: ContentUploadOperator.step over several content hashes and several
\* backends, while files and LocalVersions may disappear and a backend may
\* refuse an upload.

CuHashes == {"h1", "h2"}

\* self.config.backends, in the order of the dict
CuBackendSeq == <<"one", "two">>

CuBackends == {CuBackendSeq[i] : i \in 1..Len(CuBackendSeq)}

InitCU ==
    /\ cu_versions \in SUBSET CuHashes
    /\ cu_files \in SUBSET cu_versions
    /\ cu_remote \in [CuBackends -> SUBSET CuHashes]
    /\ cu_content_backends = {}
    /\ cu_step = IdleUploadStep
    /\ ENCIdle
    /\ RUNIdle
    /\ DSIdle
    /\ RSIdle
    /\ MRIdle
    /\ CLIdle
    /\ HSIdle
    /\ SCIdle
    /\ LCIdle
    /\ DCIdle
    /\ SWIdle
    /\ SMIdle
    /\ TCIdle
    /\ FVUIdle
    /\ RWIdle
    /\ SRVIdle
    /\ MATIdle

\* uploaded = 0; local_hashes = all_content_hashes(); content_locations = {};
\* the loop over the backends starts
CuBegin ==
    /\ cu_step.pc = "sleeping"
    /\ cu_step' = [IdleUploadStep EXCEPT !.pc = "list", !.backend = 1,
                                         !.local_hashes = cu_versions,
                                         !.last = cu_step.last]
    /\ UNCHANGED <<cu_versions, cu_files, cu_remote, cu_content_backends>>
    /\ UNCHANGED cuOthers

\* remote_hashes = backend.content_list(); every remote hash is noted in
\* content_locations; missing_hashes = local_hashes.difference(remote_hashes)
CuList ==
    /\ cu_step.pc = "list"
    /\ LET name == CuBackendSeq[cu_step.backend]
       IN  cu_step' = [cu_step EXCEPT
                !.pc = "upload",
                !.locations = @ \cup {<<h, name>> : h \in cu_remote[name]},
                !.missing = cu_step.local_hashes \ cu_remote[name]]
    /\ UNCHANGED <<cu_versions, cu_files, cu_remote, cu_content_backends>>
    /\ UNCHANGED cuOthers

\* by_content_hash raises KeyError: logged, continue
CuVanished(h) ==
    /\ cu_step.pc = "upload"
    /\ h \in cu_step.missing
    /\ h \notin cu_versions
    /\ cu_step' = [cu_step EXCEPT !.missing = @ \ {h}, !.logged = @ \cup {h}]
    /\ UNCHANGED <<cu_versions, cu_files, cu_remote, cu_content_backends>>
    /\ UNCHANGED cuOthers

\* backend.content_upload opens the file and writes it to the backend; the
\* step's counter `uploaded` is not touched
CuUpload(h) ==
    /\ cu_step.pc = "upload"
    /\ h \in cu_step.missing
    /\ h \in cu_versions
    /\ h \in cu_files
    /\ cu_remote' = [cu_remote EXCEPT ![CuBackendSeq[cu_step.backend]] = @ \cup {h}]
    /\ cu_step' = [cu_step EXCEPT !.missing = @ \ {h}, !.sent = @ \cup {h}]
    /\ UNCHANGED <<cu_versions, cu_files, cu_content_backends>>
    /\ UNCHANGED cuOthers

\* backend.content_upload raises BackendError: logged, continue
CuBackendError(h) ==
    /\ cu_step.pc = "upload"
    /\ h \in cu_step.missing
    /\ h \in cu_versions
    /\ h \in cu_files
    /\ cu_step' = [cu_step EXCEPT !.missing = @ \ {h}, !.logged = @ \cup {h}]
    /\ UNCHANGED <<cu_versions, cu_files, cu_remote, cu_content_backends>>
    /\ UNCHANGED cuOthers

\* The exceptions of content_upload that the loop catches
CaughtByUpload == {"BackendError"}

\* What open(disk_path, "rb") raises when the file is gone
OpenMissingRaises == "FileNotFoundError"

\* backend.content_upload on a LocalVersion whose file is gone: open() raises;
\* an exception the loop does not catch leaves step()
CuFileMissing(h) ==
    /\ cu_step.pc = "upload"
    /\ h \in cu_step.missing
    /\ h \in cu_versions
    /\ h \notin cu_files
    /\ cu_step' = IF OpenMissingRaises \in CaughtByUpload
                  THEN [cu_step EXCEPT !.missing = @ \ {h}, !.logged = @ \cup {h}]
                  ELSE [cu_step EXCEPT !.pc = "sleeping", !.last = "raised"]
    /\ UNCHANGED <<cu_versions, cu_files, cu_remote, cu_content_backends>>
    /\ UNCHANGED cuOthers

\* missing_hashes is used up: the next backend
CuNextBackend ==
    /\ cu_step.pc = "upload"
    /\ cu_step.missing = {}
    /\ cu_step.backend < Len(CuBackendSeq)
    /\ cu_step' = [cu_step EXCEPT !.pc = "list", !.backend = @ + 1]
    /\ UNCHANGED <<cu_versions, cu_files, cu_remote, cu_content_backends>>
    /\ UNCHANGED cuOthers

\* After the last backend: content_backends.set_all(content_locations) and
\* return uploaded > 0
CuSetAll ==
    /\ cu_step.pc = "upload"
    /\ cu_step.missing = {}
    /\ cu_step.backend = Len(CuBackendSeq)
    /\ cu_content_backends' = cu_step.locations
    /\ cu_step' = [cu_step EXCEPT
                      !.pc = "sleeping",
                      !.last = IF cu_step.uploaded > 0 THEN "active" ELSE "inactive"]
    /\ UNCHANGED <<cu_versions, cu_files, cu_remote>>
    /\ UNCHANGED cuOthers

\* The user removes the file of a LocalVersion
CuFileDisappears(h) ==
    /\ h \in cu_files
    /\ cu_files' = cu_files \ {h}
    /\ UNCHANGED <<cu_versions, cu_remote, cu_content_backends, cu_step>>
    /\ UNCHANGED cuOthers

\* Another operator rewrites or drops the LocalVersion that carried the hash
CuVersionVanishes(h) ==
    /\ h \in cu_versions
    /\ cu_versions' = cu_versions \ {h}
    /\ cu_files' = cu_files \ {h}
    /\ UNCHANGED <<cu_remote, cu_content_backends, cu_step>>
    /\ UNCHANGED cuOthers

NextCU ==
    \/ CuBegin
    \/ CuList
    \/ \E h \in CuHashes : CuVanished(h)
    \/ \E h \in CuHashes : CuUpload(h)
    \/ \E h \in CuHashes : CuBackendError(h)
    \/ \E h \in CuHashes : CuFileMissing(h)
    \/ CuNextBackend
    \/ CuSetAll
    \/ \E h \in CuHashes : CuFileDisappears(h)
    \/ \E h \in CuHashes : CuVersionVanishes(h)

SpecCU == InitCU /\ [][NextCU]_vars

\* C33: in a content-upload step a failure to upload one body (a BackendError,
\* or the local file having disappeared between discovery and upload) is
\* logged and does not stop the step: a step that has begun ends only by
\* replacing the ContentBackends store, after the remaining hashes and
\* backends.
C33_UploadFailureDoesNotStopStep ==
    [][(cu_step.pc # "sleeping" /\ cu_step'.pc = "sleeping")
          => /\ cu_step'.last # "raised"
             /\ cu_step.missing = {}
             /\ cu_step.backend = Len(CuBackendSeq)
             /\ cu_content_backends' = cu_step.locations]_vars

----------------------------------------------------------------------------
(* FileVersion.set_with_content called from two threads (datastore.py).   *)
(* get() and set() each run in an LMDB transaction of their own; nothing  *)
(* holds between the two.                                                  *)

SwPaths == {"/a"}

SwHashes == {"h1", "h2"}

SwMetas == {[mtime |-> m, size |-> 0] : m \in 0..MaxMtime}

\* The entry the path may hold before any call
SwInitialValue == [h \in {"h0"} |-> [mtime |-> 0, size |-> 0]]

InitSWC ==
    /\ sw_store \in {<<>>, [p \in SwPaths |-> SwInitialValue]}
    /\ sw_call = [t \in Threads |-> IdleSetCall]
    /\ ENCIdle
    /\ RUNIdle
    /\ DSIdle
    /\ RSIdle
    /\ MRIdle
    /\ CLIdle
    /\ HSIdle
    /\ SCIdle
    /\ LCIdle
    /\ DCIdle
    /\ CUIdle
    /\ SMIdle
    /\ TCIdle
    /\ FVUIdle
    /\ RWIdle
    /\ SRVIdle
    /\ MATIdle

\* DiskDatastore.get(key, default): one read transaction
StoreGet(store, key, default) ==
    IF key \in DOMAIN store THEN store[key] ELSE default

\* DiskDatastore.set(key, value): one write transaction
StoreSet(store, key, value) ==
    [k \in DOMAIN store \cup {key} |-> IF k = key THEN value ELSE store[k]]

\* A thread enters set_with_content(path, content_hash, meta)
SetWithContentCall(t, path, content_hash, meta) ==
    /\ sw_call[t].pc = "idle"
    /\ sw_call' = [sw_call EXCEPT ![t] =
           [pc |-> "called", path |-> path, content_hash |-> content_hash,
            meta |-> meta, path_value |-> <<>>]]
    /\ UNCHANGED sw_store
    /\ UNCHANGED swOthers

\* path_value = self.get(path, default={})
SetWithContentGet(t) ==
    /\ sw_call[t].pc = "called"
    /\ sw_call' = [sw_call EXCEPT ![t].pc = "got",
                                  ![t].path_value = StoreGet(sw_store, sw_call[t].path, <<>>)]
    /\ UNCHANGED sw_store
    /\ UNCHANGED swOthers

\* path_value[content_hash] = meta; self.set(path, path_value)
SetWithContentSet(t) ==
    /\ sw_call[t].pc = "got"
    /\ LET path_value == StoreSet(sw_call[t].path_value, sw_call[t].content_hash,
                                  sw_call[t].meta)
       IN sw_store' = StoreSet(sw_store, sw_call[t].path, path_value)
    /\ sw_call' = [sw_call EXCEPT ![t] = IdleSetCall]
    /\ UNCHANGED swOthers

NextSWC ==
    \/ \E t \in Threads, path \in SwPaths, content_hash \in SwHashes, meta \in SwMetas :
          SetWithContentCall(t, path, content_hash, meta)
    \/ \E t \in Threads : SetWithContentGet(t)
    \/ \E t \in Threads : SetWithContentSet(t)

SpecSWC == InitSWC /\ [][NextSWC]_vars

\* The (path, content_hash) entries of a store
SwEntries(store) == {<<p, h>> \in (SwPaths \X ({"h0"} \cup SwHashes)) :
                        p \in DOMAIN store /\ h \in DOMAIN store[p]}

\* C36: entries of the local FileVersion store are never lost: when two
\* threads call set_with_content for the same path with different content
\* hashes in any interleaving, both entries are present afterwards, and no
\* step removes an existing (path, content_hash) entry.
C36_EntriesNeverLost ==
    [][SwEntries(sw_store) \subseteq SwEntries(sw_store')]_vars

----------------------------------------------------------------------------
(* The deletion pass of LocalCreateOperator next to the user, the scanner, *)
(* the hasher and version creation of the same checkout                    *)

NextDEL ==
    \/ Tick
    \/ \E c \in Materializers, p \in Paths, b \in Bodies : UserWrite(c, p, b)
    \/ \E c \in Materializers : ScannerStep(c)
    \/ \E c \in Materializers, p \in Paths : HasherRead(c, p)
    \/ \E c \in Materializers : HasherStore(c)
    \/ \E c \in Materializers, p \in Paths : VersionCreationStep(c, p)
    \/ \E c \in Materializers, p \in Paths : MaterializerDelete(c, p)

SpecDEL == InitMAT /\ [][NextDEL]_vars

\* The LocalVersion of p describes data that the tombstone of p does not
\* cover: it is newer than the tombstone, or not hashed, or hashed to a content
\* that has no FileVersion entry
NotRecorded(c, p) ==
    /\ local_versions[c][p].exists
    /\ p \in DOMAIN file_versions[c]
    /\ DELETED_CONTENT_HASH \in DOMAIN file_versions[c][p]
    /\ \/ local_versions[c][p].mtime > file_versions[c][p][DELETED_CONTENT_HASH].mtime
       \/ local_versions[c][p].content_hash = NoHash
       \/ local_versions[c][p].content_hash \notin DOMAIN file_versions[c][p]

\* C37: the materializer's deletion pass never destroys local data that is not
\* recorded in FileVersion: when the LocalVersion of a path has an mtime newer
\* than the tombstone's, or a content_hash that is null or has no FileVersion
\* entry yet, the file is not unlinked and the LocalVersion is not dropped.
C37_DeletionSparesUnrecorded ==
    [][\A c \in Materializers, p \in Paths :
          NotRecorded(c, p) =>
              /\ local_versions'[c][p].exists
              /\ disk[c][p].exists => disk'[c][p].exists]_vars

----------------------------------------------------------------------------
(* The scanner step next to the materializer's download pass, which        *)
(* inserts the LocalVersion before it renames the temporary file           *)
(* (.firmament-temp.*, passed over by the walk) to the path                 *)

scmOthers == <<fvVars, rwVars, srvVars, matVars,
    encVars, runVars, dsVars, rsVars, mrVars, clVars, hsVars, lcVars, dcVars, cuVars, swVars,
    tcVars>>

\* The FileVersion stores of the checkout: none, or one content for one path
CreatorVersions ==
    {EmptyDB, SingleEntry("/a", Sha256("x"), 0), SingleEntry("/b", Sha256("y"), 1)}

InitSCM ==
    /\ sc_disk \in [ScannerPaths -> ScannerFiles]
    /\ sc_local_versions \in [ScannerPaths -> ScannerVersions]
    /\ sc_path_requests \in ScannerRequests
    /\ sc_file_versions \in CreatorVersions
    /\ sc_step = IdleScanStep
    /\ sm_create = IdleCreate
    /\ ENCIdle
    /\ RUNIdle
    /\ DSIdle
    /\ RSIdle
    /\ MRIdle
    /\ CLIdle
    /\ HSIdle
    /\ LCIdle
    /\ DCIdle
    /\ CUIdle
    /\ SWIdle
    /\ TCIdle
    /\ FVUIdle
    /\ RWIdle
    /\ SRVIdle
    /\ MATIdle

\* The download pass for a path that has FileVersions and no LocalVersion, up
\* to the insert: the status is neither on-demand nor ignore, the most recent
\* content is not the sentinel, the body is downloaded to the temporary file
\* and the LocalVersion is inserted with content_hash None
CreateInsert(path, content_hash) ==
    /\ sm_create.pc = "idle"
    /\ path \in DOMAIN sc_file_versions
    /\ ~sc_local_versions[path].exists
    /\ resolve_status(sc_path_requests, path) \notin SkippedStatuses
    /\ content_hash \in most_recent_content(sc_file_versions, path)
    /\ content_hash # DELETED_CONTENT_HASH
    /\ sc_local_versions' = [sc_local_versions EXCEPT ![path] =
           LocalVersionOf(NoHash, sc_file_versions[path][content_hash].mtime,
                          sc_file_versions[path][content_hash].size, -1)]
    /\ sm_create' = [pc |-> "inserted", path |-> path, content_hash |-> content_hash]
    /\ sc_step' = [sc_step EXCEPT !.raced =
           IF sc_step.pc = "walked"
           THEN IF path \in sc_step.seen THEN sc_step.raced ELSE sc_step.raced \cup {path}
           ELSE sc_step.raced]
    /\ UNCHANGED <<sc_disk, sc_path_requests, sc_file_versions>>
    /\ UNCHANGED scmOthers

\* temporary_destination.rename(final_destination): the file is at the path,
\* with the mtime that os.utime gave it
CreateRename ==
    /\ sm_create.pc = "inserted"
    /\ sc_disk' = [sc_disk EXCEPT ![sm_create.path] =
           FileOf(BodyOf(sm_create.content_hash),
                  sc_file_versions[sm_create.path][sm_create.content_hash].mtime
                      * TicksPerSecond)]
    /\ sm_create' = IdleCreate
    /\ UNCHANGED <<sc_local_versions, sc_path_requests, sc_file_versions, sc_step>>
    /\ UNCHANGED scmOthers

NextSCM ==
    \/ ScanWalk
    \/ ScanDeletedReturn
    \/ ScanDeletedRaise
    \/ \E path \in ScannerPaths, content_hash \in Hashes : CreateInsert(path, content_hash)
    \/ CreateRename

SpecSCM == InitSCM /\ [][NextSCM]_vars

\* The scanner step goes through its deleted paths
ScanCountsDeleted == sc_step.pc = "walked" /\ sc_step'.pc = "sleeping"

\* C38: the scanner never treats a path as deleted because of a race with the
\* materializer: a path whose LocalVersion the materializer inserted while a
\* scanner walk was in progress, so that the walk did not see the file, is not
\* counted as a deleted path by that scanner step, and no tombstone and no
\* removal of the LocalVersion results from it.
C38_RacedPathNotCountedDeleted ==
    [][ScanCountsDeleted =>
          /\ sc_step.raced \cap ScanDeletedPaths = {}
          /\ sc_file_versions' = sc_file_versions
          /\ \A p \in sc_step.raced : sc_local_versions'[p].exists]_vars

----------------------------------------------------------------------------
(* FileVersion.most_recent_content of one path on two checkouts, each with *)
(* its own dict of entries for the path                                     *)

InitTC ==
    /\ tc_store \in [Checkouts -> ItemsOver(EntryHashes)]
    /\ tc_result = [c \in Checkouts |-> NoResult]
    /\ ENCIdle
    /\ RUNIdle
    /\ DSIdle
    /\ RSIdle
    /\ MRIdle
    /\ CLIdle
    /\ HSIdle
    /\ LCIdle
    /\ DCIdle
    /\ CUIdle
    /\ SWIdle
    /\ SMIdle
    /\ SCIdle
    /\ FVUIdle
    /\ RWIdle
    /\ SRVIdle
    /\ MATIdle

\* The store of checkout c, holding the one path
StoreAt(c) == [p \in {"/a"} |-> tc_store[c]]

\* Checkout c asks for the most recent content of the path
MostRecentOn(c) ==
    /\ tc_result' = [tc_result EXCEPT ![c] = MostRecentEntry(StoreAt(c), "/a")]
    /\ UNCHANGED tc_store
    /\ UNCHANGED tcOthers

NextTC == \E c \in Checkouts : MostRecentOn(c)

SpecTC == InitTC /\ [][NextTC]_vars

\* The (content_hash, mtime, size) entries of a dict
EntriesOf(items) == {items[i] : i \in 1..Len(items)}

\* C40: the choice of the current version is a function of the set of entries
\* only: two checkouts whose FileVersion data for a path contain the same
\* (content_hash, mtime, size) entries get the same result from
\* most_recent_content, also when two entries have equal mtime and were
\* inserted in different orders.
C40_SameEntriesSameChoice ==
    \A c \in Checkouts, d \in Checkouts :
        (/\ tc_result[c].called
         /\ tc_result[d].called
         /\ EntriesOf(tc_store[c]) = EntriesOf(tc_store[d]))
            => tc_result[c] = tc_result[d]

====
